---- MODULE Spec2Model ----
(***************************************************************************)
(* Incident-response pipeline of the SixthSense agents workshop.           *)
(*                                                                         *)
(*  - process_monitoring_incident / raise_incident_in_slack                *)
(*    (src/src/workshop/incident_detection_agent.py): validation of the    *)
(*    monitoring payload, ticket creation, metrics enrichment,             *)
(*    correlation and Slack delivery, one step per await point.            *)
(*  - post_message (src/src/workshop/benefits_agent.py and                 *)
(*    report_agent.py): the polling loop over a remote agent run.          *)
(*  - send_to_resolution_agent, correlate_metrics, fetch_azure_metrics /    *)
(*    fetch_azure_monitor_metrics and create_incident_ticket of the        *)
(*    incident module, each on its own calls.                              *)
(*                                                                         *)
(* Python values are modelled by strings and small integers: ABSENT marks  *)
(* a key that is not in a dict, None is Python's None, NoNum is None in a  *)
(* slot that otherwise holds a number.  An empty dict is <<>>.             *)
(***************************************************************************)
EXTENDS Integers, Sequences, FiniteSets, TLC

VARIABLES
    \* ---- process_monitoring_incident / raise_incident_in_slack ----
    pc,              \* position of the incident flow
    data,            \* the decoded monitoring_json (NoData: not decoded)
    ticket_id,       \* process_monitoring_incident's local ticket_id
    severity,        \* process_monitoring_incident's local severity
    ticket,          \* the ticket dict of raise_incident_in_slack (<<>>: none)
    vm_queried,      \* vm_name passed to fetch_azure_metrics (None: no query)
    slack_result,    \* the dict returned by async_send_to_slack (<<>>: none)
    result,          \* the dict returned by process_monitoring_incident
    raised,          \* the exception that left process_monitoring_incident
    fetch_calls,     \* calls of fetch_azure_metrics
    notify_calls,    \* calls of async_send_to_slack
    transport_calls, \* what each call of client.chat_postMessage did, in order
    \* ---- post_message ----
    pm_pc,           \* position of post_message
    agent,           \* which module's post_message runs
    timeout_seconds, \* the timeout_seconds argument
    run,             \* the local run object: its status and required_action
    waited,          \* the local waited counter
    polls,           \* calls of runs.get made so far
    thread_msg,      \* what get_last_message_by_role finds on the thread
    tool_outputs,    \* the local tool_outputs list of the current iteration
    next_call,       \* index of the next tool call to dispatch
    seen,            \* what the latest runs.get returned
    batches,         \* batches given to submit_tool_outputs since that poll
    submits,         \* calls of runs.submit_tool_outputs made so far
    only_in_progress, \* every poll so far returned an in_progress run
    only_unhandled,  \* every poll so far returned a requires_action run with no
                     \* pending call the poller has a handler for
    tool_error,      \* TRUE once the tool-handling try block raised
    pm_result,       \* the text returned by post_message (None: none yet)
    \* ---- send_to_resolution_agent ----
    handoff_call,    \* the arguments and the collaborator of the call (<<>>: none)
    handoff_result,  \* the dict it returned (<<>>: none)
    handoff_raised,  \* the exception that left it (None: none)
    \* ---- correlate_metrics ----
    cm_metrics,      \* the metrics argument of the call
    cm_summary,      \* the summary it returned (<<>>: none)
    cm_read,         \* the per-signal keys the call read
    \* ---- fetch_azure_metrics / fetch_azure_monitor_metrics ----
    fm_pc,           \* position of the fetcher
    fm_args,         \* vm_name, detection_time and lookback_seconds of the call
    fm_now,          \* datetime.now(timezone.utc) as the fetcher read it
    fm_query,        \* the request sent to Azure Monitor (<<>>: none)
    fm_metrics,      \* the local metrics dict
    fm_series,       \* the time series being read: metric name, max_val, points read
    fm_returned,     \* per signal, the values the response has carried so far
    \* ---- create_incident_ticket ----
    tb_args,         \* alert_text, detection_time and ticket_id of both calls
    tb_clock,        \* the wall clock at the latest call
    tb_tickets,      \* the tickets the calls returned, in order
    \* ---- _parse_alert ----
    pa_parts,        \* the pieces the alert text was written from (<<>>: none)
    pa_text,         \* the alert text of the call
    pa_parsed,       \* the dict the call returned (<<>>: none)
    \* ---- transform_monitoring_to_incident_format ----
    tf_in,           \* the monitoring output given to the first call (<<>>: none)
    tf_out,          \* what the first call returned (<<>>: none)
    tf_again,        \* what a second call, on tf_out, returned (<<>>: none)
    \* ---- main and monitor_agent.check_for_abnormalities ----
    wf_pc,           \* position of the workflow
    steps,           \* the steps that have run, in order
    mon_run,         \* run.status inside check_for_abnormalities
    mon_iteration,   \* its iteration counter
    analysis_ended,  \* how the analysis ended: "completed", "not_completed"
                     \* (the run never reached completed) or "raised"
    analysis_result, \* what check_for_abnormalities returned (<<>>: none)
    monitoring_output, \* main's local of that name (<<>>: None)
    incident_result, \* main's local of that name (<<>>: None)
    resolution_result, \* main's local of that name
    wf_ticket_id,    \* main's local ticket_id
    slack_thread_ts, \* main's local of that name
    report_request,  \* what the query to the report agent carries (<<>>: none)
    report_sent,     \* the tool call of the report agent and its message (<<>>: none)
    benefits_request, \* what the query to the benefits agent carries (<<>>: none)
    benefits_sent    \* the tool call of the benefits agent and its message

pmiVars == <<pc, data, ticket_id, severity, ticket, vm_queried, slack_result,
             result, raised, fetch_calls, notify_calls, transport_calls>>
pmVars == <<pm_pc, agent, timeout_seconds, run, waited, polls, thread_msg,
            tool_outputs, next_call, seen, batches, submits, only_in_progress,
            only_unhandled, tool_error, pm_result>>
handoffVars == <<handoff_call, handoff_result, handoff_raised>>
cmVars == <<cm_metrics, cm_summary, cm_read>>
fmVars == <<fm_pc, fm_args, fm_now, fm_query, fm_metrics, fm_series,
            fm_returned>>
tbVars == <<tb_args, tb_clock, tb_tickets>>
paVars == <<pa_parts, pa_text, pa_parsed>>
tfVars == <<tf_in, tf_out, tf_again>>
wfVars == <<wf_pc, steps, mon_run, mon_iteration, analysis_ended, analysis_result,
            monitoring_output, incident_result, resolution_result, wf_ticket_id,
            slack_thread_ts, report_request, report_sent, benefits_request,
            benefits_sent>>
otherVars == <<paVars, tfVars, wfVars>>
unitVars == <<handoffVars, cmVars, fmVars, tbVars, otherVars>>
vars == <<pmiVars, pmVars, unitVars>>

ABSENT == "<absent>"
None == "None"
NonStr == "<int 5>"
Unhashable == "<list>"

NoNum == -1

(***************************************************************************)
(* Program constants.                                                      *)
(***************************************************************************)
RAISED_BY == "AIDA - Advanced Incident Detection Agent"

\* APP_TO_VM_MAPPING: its keys, and the lookup.
MappedApps == {"AppZwaagdijk"}
APP_TO_VM_MAPPING(app) == "VirtualMachine"

required_fields ==
    <<"status", "title", "short_description", "detection_time",
      "application_name", "related_log_lines">>

CpuThreshold == 80
ByteThreshold == 1000000000
DiskThreshold == 100000000

(***************************************************************************)
(* The inputs of process_monitoring_incident.  A payload is the decoded    *)
(* value: an object (a dict), a sequence (a JSON array or string, on which *)
(* "field in data" works but .get does not exist) or a scalar (a number,   *)
(* true, false or null, on which "in" raises TypeError).                   *)
(***************************************************************************)
StatusVals == {ABSENT, None, "abnormality_detected", "healthy"}
TitleVals == {ABSENT, None, "Critical service-x outage", "Slow responses"}
DescVals == {ABSENT, NonStr, "medium load increase", "Gradual degradation observed"}
TimeVals == {ABSENT, None, "2025-10-21T17:07:00+02:00"}
AppVals == {ABSENT, None, "", "Unknown", "AppZwaagdijk", "OtherApp", Unhashable}
LogVals == {ABSENT, None, "[]", "[log lines]", "[1, 2]"}

ObjectFields ==
    [status : StatusVals, title : TitleVals, short_description : DescVals,
     detection_time : TimeVals, application_name : AppVals,
     related_log_lines : LogVals]

\* A JSON array or string holds a field name (as an element or substring) or not.
SequenceFields ==
    [status : {ABSENT, "elem"}, title : {ABSENT, "elem"},
     short_description : {ABSENT, "elem"}, detection_time : {"elem"},
     application_name : {"elem"}, related_log_lines : {"elem"}]

NoFields == [k \in {"status", "title", "short_description", "detection_time",
                    "application_name", "related_log_lines"} |-> ABSENT]

NoData == [shape |-> "none", f |-> NoFields]

Payloads ==
    [shape : {"object"}, f : ObjectFields]
        \cup [shape : {"sequence"}, f : SequenceFields]
        \cup {[shape |-> "scalar", f |-> NoFields]}

\* monitoring_json: a dict, a JSON text that decodes to a payload, or a text
\* that json.loads rejects.
Inputs ==
    [kind : {"dict"}, data : [shape : {"object"}, f : ObjectFields]]
        \cup [kind : {"json"}, data : Payloads]
        \cup {[kind |-> "bad_json", data |-> [shape |-> "scalar", f |-> NoFields]]}

IsStr(v) == v \notin {ABSENT, None, NonStr, Unhashable}

\* dict.get(key): None for a missing key.
Get(d, k) == IF d.f[k] = ABSENT THEN None ELSE d.f[k]

\* d.get(k) on a dict held as a record.
DictGet(d, k) == IF k \in DOMAIN d THEN d[k] ELSE None

\* The severity keywords a text contains, lower-cased.
Words(s) ==
    CASE s = "Critical service-x outage" -> {"critical"}
      [] s = "medium load increase" -> {"medium"}
      [] s = "Gradual degradation observed" -> {"degradation"}
      [] OTHER -> {}

(***************************************************************************)
(* process_monitoring_incident, lines 923-1005: decoding, validation, the  *)
(* status gate, the alert text and the severity.                           *)
(***************************************************************************)
\* generate_ticket_id, lines 55-67: "INC" and the seven digits drawn.
generate_ticket_id(digits) ==
    "INC" \o ToString(digits[1]) \o ToString(digits[2]) \o ToString(digits[3])
          \o ToString(digits[4]) \o ToString(digits[5]) \o ToString(digits[6])
          \o ToString(digits[7])

\* Two of the draws of random.randint(0, 9), and the ids they give.
DigitDraws == {<<0, 0, 0, 0, 0, 0, 1>>, <<4, 8, 3, 0, 2, 7, 5>>}
TicketIds == {generate_ticket_id(ds) : ds \in DigitDraws}

\* A validation that also counts a null field as missing.
MissingFields_NullIsMissing(d) ==
    SelectSeq(required_fields, LAMBDA k : d.f[k] \in {ABSENT, None})

\* [field for field in required_fields if field not in data]
MissingFields(d) == SelectSeq(required_fields, LAMBDA k : d.f[k] = ABSENT)

\* A status gate that lets through everything but "healthy".
IsIncident_NotHealthy(d) == Get(d, "status") # "healthy"

\* data.get("status") != "abnormality_detected" is false
IsIncident(d) == Get(d, "status") = "abnormality_detected"

\* len(related_log_lines), "\n".join(related_log_lines) and
\* (title + short_description).lower() raise on values of the wrong type.
LogLinesUsable(v) == v \in {"[]", "[log lines]"}
ExtractionRaises(d) ==
    \/ ~LogLinesUsable(Get(d, "related_log_lines"))
    \/ ~IsStr(Get(d, "title"))
    \/ ~IsStr(Get(d, "short_description"))

\* The alert text, kept as the parts the f-string joins.
AlertText(d) ==
    [title |-> Get(d, "title"),
     short_description |-> Get(d, "short_description"),
     detection_time |-> Get(d, "detection_time"),
     application_name |-> Get(d, "application_name"),
     related_log_lines |-> Get(d, "related_log_lines")]

\* The severity of process_monitoring_incident, from title + short_description.
SeverityOf(title, short_description) ==
    LET w == Words(title) \cup Words(short_description)
    IN  IF "critical" \in w THEN "Critical"
        ELSE IF "high" \in w \/ "degradation" \in w THEN "High"
        ELSE IF "medium" \in w THEN "Medium"
        ELSE "High"

ValidationError(missing) ==
    [status |-> "error", error |-> "Invalid monitoring input", detail |-> missing]

NoIncident(d) ==
    [status |-> "no_incident",
     message |-> "Monitoring reported no abnormalities",
     monitoring_status |-> Get(d, "status"),
     application_name |-> Get(d, "application_name")]

(***************************************************************************)
(* _parse_alert and create_incident_ticket on the alert texts that         *)
(* process_monitoring_incident builds.                                     *)
(***************************************************************************)
\* The wall clock: the moments at which a call can read datetime.now, and
\* the ISO text of a moment.
MaxClock == 2
Moments == 1..MaxClock
NowStamp(moment) == "<now " \o ToString(moment) \o ">"

\* re.search(r"service[-_\s]?([A-Za-z0-9\-]+)", ...).group(0), or None
ServiceMatch(text) ==
    IF text.title = "Critical service-x outage" THEN "service-x" ELSE None

\* re.search(r"(eu|us|ap|asia|emea)[-_]?\w*", ...): the first match in these
\* texts is the "Application" of the "Application: ..." line.
RegionMatch(text) == "Application"

\* A parser that always takes the current time.
TimestampMatch_AlwaysNow(text, moment) == NowStamp(moment)

\* The first ISO 8601 timestamp of the text, else the current time.
TimestampMatch(text, moment) ==
    IF IsStr(text.detection_time) THEN text.detection_time
    ELSE IF text.related_log_lines = "[log lines]" THEN "2025-10-21T18:46:00+02:00"
    ELSE NowStamp(moment)

\* re.search(r"\b(critical|high|medium|low)\b", ...).group(1).capitalize()
SeverityMatch(text) ==
    IF "critical" \in Words(text.title) THEN "Critical" ELSE "Medium"

_parse_alert(text, moment) ==
    [service |-> ServiceMatch(text), region |-> RegionMatch(text),
     severity |-> SeverityMatch(text), timestamp |-> TimestampMatch(text, moment)]

Truthy(v) == v \notin {ABSENT, None, ""}

\* A builder that generates an id whatever the caller supplies.
create_incident_ticket_AlwaysGenerates(text, detection_time, tid, generated, moment) ==
    LET parsed == _parse_alert(text, moment)
        triage == IF Truthy(detection_time)
                  THEN [parsed EXCEPT !.timestamp = detection_time]
                  ELSE parsed
    IN  [id |-> generated,
         title |-> IF triage.service # None THEN triage.service ELSE "unknown-service",
         summary |-> text,
         created_at |-> NowStamp(moment),
         status |-> "open",
         triage |-> triage,
         azure_context |-> <<>>,
         raised_by |-> RAISED_BY]

\* create_incident_ticket, lines 681-716, called at a moment of the clock;
\* generated is what generate_ticket_id returns if it is called.
create_incident_ticket(text, detection_time, tid, generated, moment) ==
    LET parsed == _parse_alert(text, moment)
        triage == IF Truthy(detection_time)
                  THEN [parsed EXCEPT !.timestamp = detection_time]
                  ELSE parsed
    IN  [id |-> IF Truthy(tid) THEN tid ELSE generated,
         title |-> IF triage.service # None THEN triage.service ELSE "unknown-service",
         summary |-> text,
         created_at |-> NowStamp(moment),
         status |-> "open",
         triage |-> triage,
         azure_context |-> <<>>,
         raised_by |-> RAISED_BY]

(***************************************************************************)
(* The metrics record of fetch_azure_metrics as the flow sees it: a status *)
(* and six maxima (NoNum: None).  The status "azure_monitor_unavailable"   *)
(* is not among the failures of a running module: AZURE_MONITOR_AVAILABLE  *)
(* is False only in the except branch of the import, whose logger.debug    *)
(* precedes the definition of logger and so ends the import itself.  Nor   *)
(* is "subscription_id_missing": the resource id is only built when        *)
(* AZURE_SUBSCRIPTION_ID is set, and the status needs it unset.            *)
(***************************************************************************)
FailureStatuses ==
    {"resource_id_construction_failed", "credential_failed", "no_data_returned",
     "bad_request", "auth_failed", "vm_not_found", "api_error",
     "api_call_failed", "error"}

\* The failures that record an "error" text beside the status.
HasErrorText(st) ==
    st \in {"no_data_returned", "bad_request", "auth_failed", "vm_not_found",
            "api_error", "api_call_failed", "error"}

MetricsFailure(st) ==
    [status |-> st,
     error |-> IF HasErrorText(st) THEN "<error text>" ELSE None,
     cpu_max |-> NoNum, memory_max |-> NoNum, network_in_max |-> NoNum,
     network_out_max |-> NoNum, disk_read_max |-> NoNum, disk_write_max |-> NoNum]

MetricsSuccess(cpu, mem, nin, nout, dr, dw) ==
    [status |-> "success", error |-> None,
     cpu_max |-> cpu, memory_max |-> mem, network_in_max |-> nin,
     network_out_max |-> nout, disk_read_max |-> dr, disk_write_max |-> dw]

\* A fetch that raised while reading the response, after it had stored
\* the maxima of the metrics before.
MetricsPartial(cpu) ==
    [MetricsFailure("api_call_failed") EXCEPT !.cpu_max = cpu]

\* What a fetch can return to raise_incident_in_slack.
FetchResults ==
    {MetricsFailure(st) : st \in FailureStatuses}
        \cup {MetricsPartial(81)}
        \cup {MetricsSuccess(cpu, mem, NoNum, 512, dr, NoNum) :
                cpu \in {NoNum, 79, 81}, mem \in {1000000000, 1000000001},
                dr \in {100000001}}

IsNum(v) == v # NoNum

Note(text, arg) == [text |-> text, arg |-> arg]

\* metrics.get(key) for a per-signal key: None when the key is missing.
NumGet(metrics, k) == IF k \in DOMAIN metrics THEN metrics[k] ELSE NoNum

Signals ==
    {"cpu_max", "memory_max", "network_in_max", "network_out_max",
     "disk_read_max", "disk_write_max"}

\* A gate that only closes on a status that is present.
GateClosed_StatusPresent(metrics) ==
    \/ DOMAIN metrics = {}
    \/ "status" \in DOMAIN metrics /\ metrics.status # "success"

\* Lines 572-587: "not metrics", or a status other than "success".
GateClosed(metrics) ==
    \/ DOMAIN metrics = {}
    \/ DictGet(metrics, "status") # "success"

\* A comparison that also triggers at the threshold.
Exceeds_AtThreshold(v, threshold) == IsNum(v) /\ v >= threshold

\* isinstance(v, (int, float)) and v > threshold
Exceeds(v, threshold) == IsNum(v) /\ v > threshold

\* A score that ignores the verdict.
MlScore_Constant(correlated) == 30

\* Line 636, in hundredths: 0.65 if summary["correlated"] else 0.3
MlScore(correlated) == IF correlated THEN 65 ELSE 30

\* Lines 590-595: the per-signal keys a call reads.
SignalsRead(metrics) == IF GateClosed(metrics) THEN {} ELSE Signals

\* correlate_metrics, lines 565-638.  ml_score is in hundredths.
correlate_metrics(parsed, metrics) ==
    IF DOMAIN metrics = {}
    THEN [correlated |-> FALSE, ml_score |-> NoNum,
          notes |-> <<Note("No metrics available for correlation", "")>>]
    ELSE IF ~GateClosed(metrics)
    THEN
        LET cpu_max == NumGet(metrics, "cpu_max")
            memory_max == NumGet(metrics, "memory_max")
            network_in_max == NumGet(metrics, "network_in_max")
            network_out_max == NumGet(metrics, "network_out_max")
            disk_read_max == NumGet(metrics, "disk_read_max")
            disk_write_max == NumGet(metrics, "disk_write_max")
            cpu == Exceeds(cpu_max, CpuThreshold)
            mem == Exceeds(memory_max, ByteThreshold)
            nin == Exceeds(network_in_max, ByteThreshold)
            nout == Exceeds(network_out_max, ByteThreshold)
            dr == Exceeds(disk_read_max, DiskThreshold)
            dw == Exceeds(disk_write_max, DiskThreshold)
            correlated == cpu \/ mem \/ nin \/ nout
            N(b, text, v) == IF b THEN <<Note(text, ToString(v))>> ELSE <<>>
        IN  [correlated |-> correlated,
             ml_score |-> MlScore(correlated),
             notes |->
                 N(cpu, "High CPU peak observed", cpu_max)
                 \o N(mem, "High memory usage observed", memory_max)
                 \o N(nin, "High network inbound", network_in_max)
                 \o N(nout, "High network outbound", network_out_max)
                 \o N(dr, "High disk read activity", disk_read_max)
                 \o N(dw, "High disk write activity", disk_write_max),
             metrics_summary |->
                 [cpu_max_percent |-> cpu_max,
                  memory_max_bytes |-> memory_max,
                  network_in_max_bytes |-> network_in_max,
                  network_out_max_bytes |-> network_out_max]]
    ELSE IF DictGet(metrics, "status") = "error"
    THEN [correlated |-> FALSE, ml_score |-> NoNum,
          notes |-> <<Note("Metrics fetch error", DictGet(metrics, "error"))>>]
    ELSE IF DictGet(metrics, "status") = "azure_monitor_unavailable"
    THEN [correlated |-> FALSE, ml_score |-> NoNum,
          notes |-> <<Note("Azure Monitor Query client not available", "")>>]
    ELSE [correlated |-> FALSE, ml_score |-> NoNum,
          notes |-> <<Note("Metrics status", DictGet(metrics, "status"))>>]

\* format_metrics_summary, lines 70-117: the parts of the summary line
\* (<<>> is the empty string).
format_metrics_summary(metrics) ==
    IF DOMAIN metrics = {} \/ metrics.status # "success" THEN <<>>
    ELSE
        (IF ~IsNum(metrics.cpu_max) THEN <<>>
         ELSE IF metrics.cpu_max > 80 THEN <<"HIGH CPU">>
         ELSE IF metrics.cpu_max > 60 THEN <<"Elevated CPU">>
         ELSE <<"CPU">>)
        \o (IF ~IsNum(metrics.memory_max) THEN <<>>
            \* "HIGH Memory" needs more than 8 GiB, above every modelled value
            ELSE <<"Memory">>)
        \o (IF IsNum(metrics.network_in_max) /\ metrics.network_in_max > 0
            THEN <<"Network In">> ELSE <<>>)
        \o (IF IsNum(metrics.network_out_max) /\ metrics.network_out_max > 0
            THEN <<"Network Out">> ELSE <<>>)

\* extract_vm_name, lines 120-148.  The metrics of the fetcher hold no
\* "vm_name" key, so the first test never succeeds.  An unhashable
\* application name makes the dict lookup raise TypeError.
extract_vm_name_raises(application_name) == application_name = Unhashable

extract_vm_name(application_name) ==
    IF Truthy(application_name) /\ application_name \in MappedApps
    THEN APP_TO_VM_MAPPING(application_name)
    ELSE IF Truthy(application_name) /\ application_name # "Unknown"
    THEN application_name
    ELSE "VirtualMachine"

(***************************************************************************)
(* async_send_to_slack, lines 719-824.  The environment of one call: the   *)
(* SDK import, the token, and what chat_postMessage does on the rich call  *)
(* and on the plain-text call that follows a TypeError.                    *)
(***************************************************************************)
DefaultChannel == "#incidents"

Responses ==
    [kind : {"ok"}, ts : {"1729523220.000100"}, channel : {"C0123456789", None}]
Failures == [kind : {"SlackApiError", "Exception"}, ts : {None}, channel : {None}]
TypeErrorOutcome == [kind |-> "TypeError", ts |-> None, channel |-> None]

SlackEnvs ==
    [available : {FALSE}, token : {FALSE}, first : {TypeErrorOutcome},
     second : {TypeErrorOutcome}]
      \cup [available : {TRUE}, token : {FALSE}, first : {TypeErrorOutcome},
            second : {TypeErrorOutcome}]
      \cup [available : {TRUE}, token : {TRUE}, first : Responses \cup Failures,
            second : {TypeErrorOutcome}]
      \cup [available : {TRUE}, token : {TRUE}, first : {TypeErrorOutcome},
            second : Responses \cup Failures \cup {TypeErrorOutcome}]

SlackBase(title, tid, sev, affected) ==
    [ticket_id |-> tid, ticket_title |-> title, severity |-> sev,
     affected_system |-> affected, slack_channel |-> DefaultChannel]

SlackFailed(base, err) ==
    base @@ [delivery_status |-> "failed", error |-> err]

SlackDelivered(base, resp) ==
    base @@ [delivery_status |-> "success", slack_message_ts |-> resp.ts,
             slack_channel_id |-> resp.channel]

\* The outcome of the last chat_postMessage call made.
LastOutcome(env) == IF env.first.kind = "TypeError" THEN env.second ELSE env.first

\* A notifier that sends a failed message once more.
TransportCalls_Retry(env) ==
    IF ~env.available \/ ~env.token THEN <<>>
    ELSE IF env.first.kind = "TypeError" THEN <<env.first.kind, env.second.kind>>
    ELSE IF env.first.kind = "ok" THEN <<env.first.kind>>
    ELSE <<env.first.kind, env.first.kind>>

\* The chat_postMessage calls async_send_to_slack makes, each by what it did:
\* none after an early return, the rich call, and the plain-text call in the
\* handler of the rich call's TypeError.
TransportCalls(env) ==
    IF ~env.available \/ ~env.token THEN <<>>
    ELSE IF env.first.kind = "TypeError" THEN <<env.first.kind, env.second.kind>>
    ELSE <<env.first.kind>>

async_send_to_slack(env, title, tid, sev, affected) ==
    LET base == SlackBase(title, tid, sev, affected)
        out == LastOutcome(env)
    IN  IF ~env.available THEN SlackFailed(base, "Slack SDK not installed")
        ELSE IF ~env.token THEN SlackFailed(base, "SLACK_BOT_TOKEN not configured")
        ELSE IF out.kind = "ok" THEN SlackDelivered(base, out)
        ELSE IF out.kind = "SlackApiError" THEN SlackFailed(base, "Slack API error")
        ELSE SlackFailed(base, "<str(e)>")

\* a or b
Or(a, b) == IF Truthy(a) THEN a ELSE b

\* A ticket update that writes every delivery field whatever the outcome.
RecordDelivery_AllFields(t, sr) ==
    t @@ [slack_delivery_status |-> DictGet(sr, "delivery_status"),
          slack_ts |-> DictGet(sr, "slack_message_ts"),
          slack_channel |-> Or(DictGet(sr, "slack_channel_id"),
                               DictGet(sr, "slack_channel")),
          slack_error |-> DictGet(sr, "error")]

\* raise_incident_in_slack, lines 886-895: the delivery fields of the ticket.
RecordDelivery(t, sr) ==
    IF DictGet(sr, "delivery_status") = "success"
    THEN t @@ [slack_delivery_status |-> DictGet(sr, "delivery_status"),
               slack_ts |-> DictGet(sr, "slack_message_ts"),
               slack_channel |-> Or(DictGet(sr, "slack_channel_id"),
                                    DictGet(sr, "slack_channel"))]
    ELSE t @@ [slack_delivery_status |-> DictGet(sr, "delivery_status"),
               slack_error |-> DictGet(sr, "error")]

(***************************************************************************)
(* The incident flow: process_monitoring_incident awaiting                 *)
(* raise_incident_in_slack, one action per stretch of code between awaits. *)
(***************************************************************************)
InitIncident ==
    /\ pc = "idle"
    /\ data = NoData
    /\ ticket_id = None
    /\ severity = None
    /\ ticket = <<>>
    /\ vm_queried = None
    /\ slack_result = <<>>
    /\ result = <<>>
    /\ raised = None
    /\ fetch_calls = 0
    /\ notify_calls = 0
    /\ transport_calls = <<>>

\* Lines 923-1005.  What the code before the try block does with an input:
\* return a result, raise, or go on to raise_incident_in_slack.
Prologue(inp) ==
    IF inp.kind = "bad_json"
    THEN [to |-> "returned", exc |-> None, decoded |-> FALSE,
          result |-> [status |-> "error", error |-> "Invalid JSON input",
                      detail |-> <<"<str(e)>">>]]
    ELSE IF inp.data.shape = "scalar"
    THEN [to |-> "raised", exc |-> "TypeError", decoded |-> TRUE, result |-> <<>>]
    ELSE IF MissingFields(inp.data) # <<>>
    THEN [to |-> "returned", exc |-> None, decoded |-> TRUE,
          result |-> ValidationError(MissingFields(inp.data))]
    ELSE IF inp.data.shape # "object"
    THEN [to |-> "raised", exc |-> "AttributeError", decoded |-> TRUE,
          result |-> <<>>]
    ELSE IF ~IsIncident(inp.data)
    THEN [to |-> "returned", exc |-> None, decoded |-> TRUE,
          result |-> NoIncident(inp.data)]
    ELSE IF ExtractionRaises(inp.data)
    THEN [to |-> "raised", exc |-> "TypeError", decoded |-> TRUE, result |-> <<>>]
    ELSE [to |-> "ris_create", exc |-> None, decoded |-> TRUE, result |-> <<>>]

PMI_Begin ==
    /\ pc = "idle"
    /\ \E inp \in Inputs, tid \in TicketIds :
         LET p == Prologue(inp)
         IN  /\ pc' = p.to
             /\ data' = IF p.decoded THEN inp.data ELSE NoData
             /\ ticket_id' = IF p.decoded THEN tid ELSE None
             /\ result' = p.result
             /\ raised' = p.exc
             /\ severity' = IF p.to = "ris_create"
                            THEN SeverityOf(inp.data.f.title,
                                            inp.data.f.short_description)
                            ELSE None
    /\ UNCHANGED <<pmVars, unitVars>>
    /\ UNCHANGED <<ticket, vm_queried, slack_result, fetch_calls, notify_calls,
                   transport_calls>>

\* raise_incident_in_slack, line 840.
RIS_Create ==
    /\ pc = "ris_create"
    /\ \E generated \in TicketIds, moment \in Moments :
         ticket' = create_incident_ticket(AlertText(data),
                                          Get(data, "detection_time"), ticket_id,
                                          generated, moment)
    /\ pc' = "ris_fetch"
    /\ UNCHANGED <<pmVars, unitVars>>
    /\ UNCHANGED <<data, ticket_id, severity, vm_queried, slack_result, result,
                   raised, fetch_calls, notify_calls, transport_calls>>

\* Lines 845-855: the VM name raise_incident_in_slack queries.
QueryVmName(affected_system, service) ==
    LET app_name == Or(affected_system, service)
    IN  IF Truthy(app_name) /\ app_name \in MappedApps
        THEN APP_TO_VM_MAPPING(app_name)
        ELSE Or(app_name, "VirtualMachine")

\* Lines 843-866: the metrics step.  An unhashable application name makes
\* the mapping lookup raise, which leaves the ticket with empty metrics.
RIS_Fetch ==
    /\ pc = "ris_fetch"
    /\ LET affected == Get(data, "application_name")
       IN  IF affected = Unhashable
           THEN /\ ticket' = ticket @@ [metrics |-> <<>>]
                /\ UNCHANGED <<vm_queried, fetch_calls>>
           ELSE /\ vm_queried' = QueryVmName(affected, ticket.triage.service)
                /\ fetch_calls' = fetch_calls + 1
                /\ \E m \in FetchResults : ticket' = ticket @@ [metrics |-> m]
    /\ pc' = "ris_correlate"
    /\ UNCHANGED <<pmVars, unitVars>>
    /\ UNCHANGED <<data, ticket_id, severity, slack_result, result, raised,
                   notify_calls, transport_calls>>

\* A correlation step that also empties the metrics it has read.
RIS_Correlate_ClearsMetrics ==
    /\ pc = "ris_correlate"
    /\ ticket' = [ticket EXCEPT !.metrics = <<>>] @@
                   [correlation |-> correlate_metrics(ticket.triage, ticket.metrics)]
    /\ pc' = "ris_notify"
    /\ UNCHANGED <<pmVars, unitVars>>
    /\ UNCHANGED <<data, ticket_id, severity, vm_queried, slack_result, result,
                   raised, fetch_calls, notify_calls, transport_calls>>

\* Lines 869-874.
RIS_Correlate ==
    /\ pc = "ris_correlate"
    /\ ticket' = ticket @@
                   [correlation |-> correlate_metrics(ticket.triage, ticket.metrics)]
    /\ pc' = "ris_notify"
    /\ UNCHANGED <<pmVars, unitVars>>
    /\ UNCHANGED <<data, ticket_id, severity, vm_queried, slack_result, result,
                   raised, fetch_calls, notify_calls, transport_calls>>

\* Lines 877-884: the call of async_send_to_slack.
RIS_Notify ==
    /\ pc = "ris_notify"
    /\ \E env \in SlackEnvs :
         /\ slack_result' =
              async_send_to_slack(env, ticket.title, ticket.id,
                                  Or(severity, ticket.triage.severity),
                                  Or(Get(data, "application_name"),
                                     Or(ticket.triage.service, "")))
         /\ transport_calls' = transport_calls \o TransportCalls(env)
    /\ notify_calls' = notify_calls + 1
    /\ pc' = "ris_record"
    /\ UNCHANGED <<pmVars, unitVars>>
    /\ UNCHANGED <<data, ticket_id, severity, ticket, vm_queried, result, raised,
                   fetch_calls>>

\* Lines 886-897.
RIS_Record ==
    /\ pc = "ris_record"
    /\ ticket' = RecordDelivery(ticket, slack_result)
    /\ pc' = "pmi_finish"
    /\ UNCHANGED <<pmVars, unitVars>>
    /\ UNCHANGED <<data, ticket_id, severity, vm_queried, slack_result, result,
                   raised, fetch_calls, notify_calls, transport_calls>>

\* Lines 1040-1061: the success result.
SuccessResult(d, tid, sev, full_ticket) ==
    [status |-> "success",
     ticket_id |-> tid,
     incident_id |-> DictGet(full_ticket, "id"),
     title |-> DictGet(full_ticket, "title"),
     application_name |-> Get(d, "application_name"),
     vm_name |-> extract_vm_name(Get(d, "application_name")),
     severity |-> sev,
     description |-> [short_description |-> Get(d, "short_description"),
                      metrics_summary |-> format_metrics_summary(full_ticket.metrics)],
     short_description |-> Get(d, "short_description"),
     detection_time |-> Get(d, "detection_time"),
     slack_delivery |->
         [status |-> DictGet(full_ticket, "slack_delivery_status"),
          channel |-> DictGet(full_ticket, "slack_channel"),
          message_timestamp |-> DictGet(full_ticket, "slack_ts"),
          error |-> DictGet(full_ticket, "slack_error")],
     metrics |-> full_ticket.metrics,
     correlation |-> full_ticket.correlation,
     monitoring_source |-> full_ticket.monitoring_source,
     full_ticket |-> full_ticket]

\* Lines 1063-1071: the result of the except clause.
FailedResult(d) ==
    [status |-> "error", error |-> "Failed to process incident",
     detail |-> <<"<str(e)>">>,
     application_name |-> Get(d, "application_name"),
     title |-> Get(d, "title")]

\* Lines 1018-1071: after raise_incident_in_slack has returned.
PMI_Finish ==
    /\ pc = "pmi_finish"
    /\ LET full_ticket ==
             ticket @@ [monitoring_source |->
                          [status |-> Get(data, "status"),
                           detection_time |-> Get(data, "detection_time"),
                           related_log_lines |-> Get(data, "related_log_lines")]]
       IN  /\ ticket' = full_ticket
           /\ result' = IF extract_vm_name_raises(Get(data, "application_name"))
                        THEN FailedResult(data)
                        ELSE SuccessResult(data, ticket_id, severity, full_ticket)
    /\ pc' = "returned"
    /\ UNCHANGED <<pmVars, unitVars>>
    /\ UNCHANGED <<data, ticket_id, severity, vm_queried, slack_result, raised,
                   fetch_calls, notify_calls, transport_calls>>

NextIncident ==
    \/ PMI_Begin
    \/ RIS_Create
    \/ RIS_Fetch
    \/ RIS_Correlate
    \/ RIS_Notify
    \/ RIS_Record
    \/ PMI_Finish

(***************************************************************************)
(* post_message of benefits_agent.py (lines 477-608) and report_agent.py   *)
(* (lines 241-361): the same polling loop with different tool handlers and *)
(* result texts.                                                           *)
(***************************************************************************)
Agents == {"benefits", "report"}

\* Largest timeout_seconds argument and longest tool-call list explored.
MaxTimeout == 6
MaxToolCalls == 2

poll_interval == 2

RunStatuses == {"queued", "in_progress", "requires_action", "completed", "failed"}
ActiveStatuses == {"queued", "in_progress", "requires_action"}

\* A poller with a handler for every function name.
HandledNames_Any(a) ==
    {"async_calculate_benefits", "async_send_benefits_to_slack",
     "async_send_to_slack", "unknown_tool"}

\* The function names each post_message dispatches.
HandledNames(a) ==
    IF a = "benefits"
    THEN {"async_calculate_benefits", "async_send_benefits_to_slack"}
    ELSE {"async_send_to_slack"}

ToolNames(a) == HandledNames(a) \cup {"unknown_tool"}

\* A pending tool call: its id, its function name, and whether decoding its
\* arguments or running its handler raises.
CallIds == <<"call_a", "call_b", "call_c", "call_d">>
ToolCallLists(a) ==
    UNION {{calls \in [1..n -> [id : {"call_a", "call_b", "call_c", "call_d"},
                                name : ToolNames(a), fails : BOOLEAN]] :
              \A i \in 1..n :
                 /\ calls[i].id = CallIds[i]
                 /\ calls[i].name \notin HandledNames(a) => ~calls[i].fails}
           : n \in 0..MaxToolCalls}

AgentMessage == "<text of the last agent message>"

TimedOutText(a) ==
    IF a = "benefits" THEN "Benefits calculation timed out. Please try again."
    ELSE "Ticket creation timed out. Please try again."
FailedText(a) ==
    IF a = "benefits"
    THEN "Benefits calculation failed. Unable to analyze financial impact."
    ELSE "Ticket creation failed. Unable to generate ticket."
NoResponseText(a) ==
    IF a = "benefits" THEN "No response from benefits agent."
    ELSE "No response from report agent."
RetrievalErrorText(a) ==
    IF a = "benefits" THEN "Error retrieving benefits analysis."
    ELSE "Error retrieving ticket details."
UnableText(a) ==
    IF a = "benefits" THEN "Unable to complete benefits analysis."
    ELSE "Unable to complete ticket creation."
ErrorText(a) ==
    IF a = "benefits" THEN "An error occurred during benefits calculation."
    ELSE "An error occurred during ticket creation."

Run(st, action, calls) == [status |-> st, required_action |-> action, tool_calls |-> calls]

InitPoller ==
    /\ pm_pc = "idle"
    /\ agent = None
    /\ timeout_seconds = 0
    /\ run = Run(None, FALSE, <<>>)
    /\ waited = 0
    /\ polls = 0
    /\ thread_msg = None
    /\ tool_outputs = <<>>
    /\ next_call = 1
    /\ seen = Run(None, FALSE, <<>>)
    /\ batches = <<>>
    /\ submits = 0
    /\ only_in_progress = TRUE
    /\ only_unhandled = TRUE
    /\ tool_error = FALSE
    /\ pm_result = None

\* Lines 496-520 (benefits), 260-284 (report): the message and the run are
\* created; either call may raise, which the outer except turns into a text.
PM_Start ==
    /\ pm_pc = "idle"
    /\ \E a \in Agents, t \in 1..MaxTimeout, m \in {"text", "none", "raises"} :
         /\ agent' = a
         /\ timeout_seconds' = t
         /\ thread_msg' = m
         /\ \/ \E st \in RunStatuses :
                 /\ run' = Run(st, FALSE, <<>>)
                 /\ pm_pc' = "loop"
                 /\ pm_result' = None
            \/ /\ pm_pc' = "done"
               /\ pm_result' = ErrorText(a)
               /\ run' = run
    /\ UNCHANGED <<pmiVars, unitVars>>
    /\ UNCHANGED <<waited, polls, tool_outputs, next_call, seen, batches, submits,
                   only_in_progress, only_unhandled, tool_error>>

\* The while condition.
LoopCond == run.status \in ActiveStatuses /\ waited < timeout_seconds

\* Lines 523-537: one sleep and one runs.get.  A poll that raises is
\* logged and the loop goes on; a run in requires_action with a
\* required_action enters the tool-handling block.
PM_Poll ==
    /\ pm_pc = "loop"
    /\ LoopCond
    /\ waited' = waited + poll_interval
    /\ polls' = polls + 1
    /\ batches' = <<>>
    /\ tool_outputs' = <<>>
    /\ next_call' = 1
    /\ \/ /\ seen' = Run("<runs.get raised>", FALSE, <<>>)
          /\ only_in_progress' = FALSE
          /\ only_unhandled' = FALSE
          /\ pm_pc' = "loop"
          /\ run' = run
       \/ \E st \in RunStatuses \ {"requires_action"} :
             /\ run' = Run(st, FALSE, <<>>)
             /\ seen' = run'
             /\ only_in_progress' = (only_in_progress /\ st = "in_progress")
             /\ only_unhandled' = FALSE
             /\ pm_pc' = "loop"
       \/ \E action \in BOOLEAN, calls \in ToolCallLists(agent) :
             /\ ~action => calls = <<>>
             /\ run' = Run("requires_action", action, calls)
             /\ seen' = run'
             /\ only_in_progress' = FALSE
             /\ only_unhandled' =
                  (only_unhandled
                     /\ \A i \in 1..Len(calls) : calls[i].name = "unknown_tool")
             /\ pm_pc' = IF action THEN "dispatch" ELSE "loop"
    /\ UNCHANGED <<pmiVars, unitVars>>
    /\ UNCHANGED <<agent, timeout_seconds, thread_msg, submits, tool_error,
                   pm_result>>

\* An output keyed by the function name instead of the call id.
ToolOutput_ByName(call) == [tool_call_id |-> call.name, output |-> "<result>"]

\* The entry appended to tool_outputs for a dispatched call.
ToolOutput(call) == [tool_call_id |-> call.id, output |-> "<result>"]

\* An except clause that goes on with the loop instead of leaving it.
AfterToolError_Continue == "loop"

\* Where the except clause of the tool-handling block sends the loop: break.
AfterToolError == "broken"

\* Lines 540-560 (benefits), 304-313 (report): one turn of the for loop over
\* the pending tool calls.  A call with a handled name is decoded and run,
\* and its output collected; any other call is passed over.
PM_Dispatch ==
    /\ pm_pc = "dispatch"
    /\ next_call <= Len(run.tool_calls)
    /\ LET call == run.tool_calls[next_call]
       IN  IF call.name \in HandledNames(agent)
           THEN IF call.fails
                THEN /\ tool_error' = TRUE
                     /\ pm_pc' = AfterToolError
                     /\ UNCHANGED <<tool_outputs, next_call>>
                ELSE /\ tool_outputs' = Append(tool_outputs, ToolOutput(call))
                     /\ next_call' = next_call + 1
                     /\ UNCHANGED <<tool_error, pm_pc>>
           ELSE /\ next_call' = next_call + 1
                /\ UNCHANGED <<tool_outputs, tool_error, pm_pc>>
    /\ UNCHANGED <<pmiVars, unitVars>>
    /\ UNCHANGED <<agent, timeout_seconds, run, waited, polls, thread_msg, seen,
                   batches, submits, only_in_progress, only_unhandled,
                   pm_result>>

\* Lines 562-573 (benefits), 315-326 (report): after the for loop, the
\* collected outputs, if any, are submitted in one call, which returns the
\* run or raises.
PM_Submit ==
    /\ pm_pc = "dispatch"
    /\ next_call > Len(run.tool_calls)
    /\ IF tool_outputs # <<>>
       THEN /\ batches' = Append(batches, tool_outputs)
            /\ submits' = submits + 1
            /\ \/ \E st \in RunStatuses :
                    /\ run' = Run(st, st = "requires_action", run.tool_calls)
                    /\ pm_pc' = "loop"
                    /\ tool_error' = tool_error
               \/ /\ tool_error' = TRUE
                  /\ pm_pc' = AfterToolError
                  /\ run' = run
       ELSE /\ pm_pc' = "loop"
            /\ UNCHANGED <<batches, submits, run, tool_error>>
    /\ UNCHANGED <<pmiVars, unitVars>>
    /\ UNCHANGED <<agent, timeout_seconds, waited, polls, thread_msg, tool_outputs,
                   next_call, seen, only_in_progress, only_unhandled,
                   pm_result>>

\* A timeout test that misses the poll on which waited equals the timeout.
TimedOut_Strict(w, t) == w > t

\* if waited >= timeout_seconds
TimedOut(w, t) == w >= t

\* Lines 575-603 (benefits), 328-356 (report): the text returned once the
\* loop is over.
FinalText(a, w, t, st, msg) ==
    IF TimedOut(w, t) THEN TimedOutText(a)
    ELSE IF st = "failed" THEN FailedText(a)
    ELSE IF st = "completed"
    THEN (IF msg = "text" THEN AgentMessage
          ELSE IF msg = "none" THEN NoResponseText(a)
          ELSE RetrievalErrorText(a))
    ELSE UnableText(a)

\* The loop is over: its condition is false, or the except clause broke out.
LoopOver == IF pm_pc = "loop" THEN ~LoopCond ELSE pm_pc = "broken"

PM_Finish ==
    /\ LoopOver
    /\ pm_result' = FinalText(agent, waited, timeout_seconds, run.status, thread_msg)
    /\ pm_pc' = "done"
    /\ UNCHANGED <<pmiVars, unitVars>>
    /\ UNCHANGED <<agent, timeout_seconds, run, waited, polls, thread_msg,
                   tool_outputs, next_call, seen, batches, submits,
                   only_in_progress, only_unhandled, tool_error>>

NextPoller ==
    \/ PM_Start
    \/ PM_Poll
    \/ PM_Dispatch
    \/ PM_Submit
    \/ PM_Finish

(***************************************************************************)
(* The functions of incident_detection_agent.py taken one call at a time.  *)
(* UnitAlerts are alert texts as process_monitoring_incident builds them.  *)
(***************************************************************************)
UnitAlerts ==
    [title : {"Critical service-x outage", "Slow responses"},
     short_description : {"medium load increase"},
     detection_time : {None, "2025-10-21T17:07:00+02:00"},
     application_name : {"AppZwaagdijk"},
     related_log_lines : {"[]", "[log lines]"}]

\* The ticket_id argument: absent (None), empty, or an id of the caller.
SuppliedIds == {None, "", "TCK-7"}

(***************************************************************************)
(* send_to_resolution_agent, lines 641-678.  A collaborator is what        *)
(* "from resolution_agent import receive_incident" gives (the import       *)
(* fails, or binds a falsy object, or binds a sync or async function) and  *)
(* what the function does when called: return a value or raise.            *)
(***************************************************************************)
Collaborators ==
    [import : {"fails", "falsy"}, kind : {None}, does : {None}, value : {None}]
        \cup [import : {"ok"}, kind : {"sync", "async"}, does : {"returns"},
              value : {None, "resolved"}]
        \cup [import : {"ok"}, kind : {"sync", "async"}, does : {"raises"},
              value : {"", "resolution agent down"}]

\* Lines 655-663.
HandoffPayload(t, correlation) ==
    [incident_id |-> DictGet(t, "id"),
     title |-> DictGet(t, "title"),
     summary |-> DictGet(t, "summary"),
     created_at |-> DictGet(t, "created_at"),
     triage |-> DictGet(t, "triage"),
     correlation |-> correlation,
     azure_context |-> IF "azure_context" \in DOMAIN t THEN t.azure_context ELSE <<>>]

\* A hand-off that keeps the result it starts with when nothing is imported.
send_to_resolution_agent_InitialResult(t, correlation, collab) ==
    IF collab.import # "ok"
    THEN [raised |-> None, received |-> <<>>,
          result |-> [sent |-> FALSE, detail |-> "no resolution agent available"]]
    ELSE IF collab.does = "returns"
    THEN [raised |-> None, received |-> HandoffPayload(t, correlation),
          result |-> [sent |-> TRUE, response |-> collab.value]]
    ELSE [raised |-> None, received |-> HandoffPayload(t, correlation),
          result |-> [sent |-> FALSE, error |-> collab.value]]

\* Lines 647-678: what the call raises, what the collaborator received and
\* the dict returned.
send_to_resolution_agent(t, correlation, collab) ==
    IF collab.import # "ok"
    THEN [raised |-> None, received |-> <<>>,
          result |-> [sent |-> FALSE, detail |-> "no resolution agent found"]]
    ELSE IF collab.does = "returns"
    THEN [raised |-> None, received |-> HandoffPayload(t, correlation),
          result |-> [sent |-> TRUE, response |-> collab.value]]
    ELSE [raised |-> None, received |-> HandoffPayload(t, correlation),
          result |-> [sent |-> FALSE, error |-> collab.value]]

\* The tickets and correlation summaries a caller hands over.
HandoffTickets ==
    {create_incident_ticket(a, a.detection_time, tid, generated, 1) :
        a \in UnitAlerts, tid \in SuppliedIds, generated \in TicketIds}

HandoffCorrelations ==
    {correlate_metrics(<<>>, m) :
        m \in {MetricsFailure("vm_not_found"),
               MetricsSuccess(81, NoNum, NoNum, NoNum, NoNum, NoNum)}}

InitHandoff ==
    /\ handoff_call = <<>>
    /\ handoff_result = <<>>
    /\ handoff_raised = None

HandoffCall ==
    /\ handoff_call = <<>>
    /\ \E t \in HandoffTickets, correlation \in HandoffCorrelations,
          collab \in Collaborators :
         LET r == send_to_resolution_agent(t, correlation, collab)
         IN  /\ handoff_call' = [ticket |-> t, correlation |-> correlation,
                                 collab |-> collab, received |-> r.received]
             /\ handoff_result' = r.result
             /\ handoff_raised' = r.raised
    /\ UNCHANGED <<pmiVars, pmVars, otherVars, cmVars, fmVars, tbVars>>

NextHandoff == HandoffCall

(***************************************************************************)
(* correlate_metrics on one call.  The metrics argument is empty, a record *)
(* that failed (with or without per-signal values), a record with no       *)
(* status at all, or a success record with values at and around the        *)
(* thresholds.  NoNum stands for every value that is not an int or float.  *)
(***************************************************************************)
GatedStatuses == {"error", "vm_not_found", "azure_monitor_unavailable", "not_fetched"}

CorrelatorInputs ==
    {<<>>}
        \cup {MetricsFailure(st) : st \in GatedStatuses}
        \cup {[MetricsSuccess(81, 1000000001, 1000000001, 1000000001,
                              100000001, 100000001)
                 EXCEPT !.status = st, !.error = "<error text>"] :
                st \in GatedStatuses}
        \cup {[cpu_max |-> 81, memory_max |-> 1000000001]}
        \cup {[status |-> "error", cpu_max |-> 81]}
        \cup {MetricsSuccess(cpu, mem, nin, nout, dr, dw) :
                cpu \in {NoNum, 79, 80, 81},
                mem \in {NoNum, 1000000000, 1000000001},
                nin \in {1000000000, 1000000001},
                nout \in {1000000000, 1000000001},
                dr \in {100000000, 100000001},
                dw \in {NoNum, 100000001}}

InitCorrelator ==
    /\ cm_metrics = <<>>
    /\ cm_summary = <<>>
    /\ cm_read = {}

CorrelateCall ==
    /\ cm_summary = <<>>
    /\ \E m \in CorrelatorInputs, a \in UnitAlerts :
         /\ cm_metrics' = m
         /\ cm_summary' = correlate_metrics(_parse_alert(a, 1), m)
         /\ cm_read' = SignalsRead(m)
    /\ UNCHANGED <<pmiVars, pmVars, otherVars, handoffVars, fmVars, tbVars>>

NextCorrelator == CorrelateCall

(***************************************************************************)
(* fetch_azure_metrics (lines 490-562) calling fetch_azure_monitor_metrics *)
(* (lines 204-425).  The clock counts minutes.  A response is read one     *)
(* time series and one data point at a time, as the loops of lines 335-382 *)
(* read it.                                                                *)
(***************************************************************************)
MaxSeries == 2
MaxPoints == 2

LogTimestamp == "2025-10-21T18:46:00+02:00"

\* The parsed argument: a triage dict, or one that also carries log lines.
ParsedArgs ==
    [timestamp : {None, "2025-10-21T17:07:00+02:00"},
     related_log_lines : {ABSENT, "[log lines]"}]

FetchArgs ==
    [vm_name : {"VirtualMachine", "OtherApp"},
     detection_time : {None, "2025-10-21T17:07:00+02:00"},
     lookback_seconds : {30, 300},
     parsed : ParsedArgs]

\* The environment of one fetch: whether fetch_azure_metrics itself raises
\* (into its except clause, lines 553-562), AZURE_SUBSCRIPTION_ID and
\* AZURE_RESOURCE_GROUP_NAME set or not, and what the credential does.
FetchEnvs ==
    [raises : BOOLEAN, configured : BOOLEAN,
     credential : {"ok", "none", "token_raises"}]

\* The ways the HTTP call ends: a status code (200 with or without metric
\* values) or an exception.
HttpOutcomes == {"200 values", "200 empty", "400", "401", "404", "500", "raises"}

\* Lines 514-540: the detection time handed to fetch_azure_monitor_metrics.
ResolveDetectionTime(a) ==
    IF Truthy(a.detection_time) THEN a.detection_time
    ELSE IF a.parsed.related_log_lines = "[log lines]" THEN LogTimestamp
    ELSE a.parsed.timestamp

\* Line 509: max(1, lookback_seconds // 60)
LookbackMinutes(lookback_seconds) ==
    IF lookback_seconds \div 60 > 1 THEN lookback_seconds \div 60 ELSE 1

\* A window that ends at the detection time when there is one.
EndTime_AtDetection(now, detection_time) ==
    IF Truthy(detection_time) THEN 0 ELSE now

\* Line 249: end_time = datetime.now(timezone.utc)
EndTime(now, detection_time) == now

\* Lines 249-250 and 288-318: the request.
Query(vm_name, now, detection_time, lookback_minutes) ==
    [vm_name |-> vm_name,
     start |-> EndTime(now, detection_time) - lookback_minutes,
     end |-> EndTime(now, detection_time),
     interval |-> "PT5M",
     aggregation |-> "Maximum"]

\* Lines 222-231: the metrics dict at the start (raw_data: its length).
InitialMetrics ==
    [status |-> "not_fetched", error |-> None, raw_data |-> 0,
     cpu_max |-> NoNum, memory_max |-> NoNum, network_in_max |-> NoNum,
     network_out_max |-> NoNum, disk_read_max |-> NoNum, disk_write_max |-> NoNum]

\* Lines 553-562: the dict of fetch_azure_metrics' own except clause.
FetchErrorDict ==
    [status |-> "error", error |-> "<str(e)>",
     cpu_max |-> NoNum, memory_max |-> NoNum, network_in_max |-> NoNum,
     network_out_max |-> NoNum]

Failed(metrics, st, err) == [metrics EXCEPT !.status = st, !.error = err]

\* Lines 278-285 and 369-374: the storage key of a metric name, by the
\* first query name it contains.
MetricNames == {"Percentage CPU", "Network In Total", "Unknown"}
StorageKey(metric_name) ==
    CASE metric_name = "Percentage CPU" -> "cpu_max"
      [] metric_name = "Network In Total" -> "network_in_max"
      [] OTHER -> None

\* Data points: their aggregates (NoNum: missing or null), and whether the
\* point can be read at all (a point that is no dict, or whose value does
\* not compare with a number, raises).
DataPoints ==
    {[ok |-> TRUE, maximum |-> 1, total |-> NoNum, average |-> NoNum],
     [ok |-> TRUE, maximum |-> 2, total |-> NoNum, average |-> NoNum],
     [ok |-> TRUE, maximum |-> 1, total |-> 3, average |-> 0],
     [ok |-> TRUE, maximum |-> NoNum, total |-> 3, average |-> 2],
     [ok |-> TRUE, maximum |-> NoNum, total |-> NoNum, average |-> 2],
     [ok |-> TRUE, maximum |-> NoNum, total |-> NoNum, average |-> NoNum],
     [ok |-> FALSE, maximum |-> NoNum, total |-> NoNum, average |-> NoNum]}

\* Lines 355-366: what a data point offers to the maximum.
Contribution(dp) ==
    IF IsNum(dp.maximum) THEN dp.maximum
    ELSE IF IsNum(dp.total) THEN dp.total
    ELSE dp.average

\* Lines 356-366: max_val after a data point.
NextMax(max_val, dp) ==
    LET c == Contribution(dp)
    IN  IF IsNum(c) /\ (~IsNum(max_val) \/ c > max_val) THEN c ELSE max_val

NoSeries == [name |-> None, max_val |-> NoNum, n |-> 0]

InitFetcher ==
    /\ fm_pc = "idle"
    /\ fm_args = <<>>
    /\ fm_now = 0
    /\ fm_query = <<>>
    /\ fm_metrics = <<>>
    /\ fm_series = NoSeries
    /\ fm_returned = [k \in Signals |-> {}]

\* fetch_azure_metrics, lines 507-549, and fetch_azure_monitor_metrics up to
\* the HTTP call, lines 222-318.
FM_Begin ==
    /\ fm_pc = "idle"
    /\ \E a \in FetchArgs, now \in Moments, env \in FetchEnvs :
         /\ fm_args' = a
         /\ fm_now' = now
         /\ IF env.raises
            THEN /\ fm_metrics' = FetchErrorDict
                 /\ fm_pc' = "done"
                 /\ UNCHANGED fm_query
            ELSE IF ~env.configured
            THEN /\ fm_metrics' = Failed(InitialMetrics,
                                         "resource_id_construction_failed", None)
                 /\ fm_pc' = "done"
                 /\ UNCHANGED fm_query
            ELSE IF env.credential = "none"
            THEN /\ fm_metrics' = Failed(InitialMetrics, "credential_failed", None)
                 /\ fm_pc' = "done"
                 /\ UNCHANGED fm_query
            ELSE IF env.credential = "token_raises"
            THEN /\ fm_metrics' = Failed(InitialMetrics, "api_call_failed", "<str(e)>")
                 /\ fm_pc' = "done"
                 /\ UNCHANGED fm_query
            ELSE /\ fm_metrics' = InitialMetrics
                 /\ fm_query' = Query(a.vm_name, now, ResolveDetectionTime(a),
                                      LookbackMinutes(a.lookback_seconds))
                 /\ fm_pc' = "requested"
    /\ UNCHANGED <<fm_series, fm_returned>>
    /\ UNCHANGED <<pmiVars, pmVars, otherVars, handoffVars, cmVars, tbVars>>

\* Lines 322-333 and 388-419: the response arrives.
FM_Respond ==
    /\ fm_pc = "requested"
    /\ \E http \in HttpOutcomes :
         CASE http = "200 values" ->
                /\ fm_pc' = "metric"
                /\ UNCHANGED fm_metrics
           [] http = "200 empty" ->
                /\ fm_pc' = "done"
                /\ fm_metrics' = Failed(fm_metrics, "no_data_returned",
                                        "Azure Monitor returned no metrics data")
           [] http = "400" ->
                /\ fm_pc' = "done"
                /\ fm_metrics' = Failed(fm_metrics, "bad_request",
                                        "Bad request to Azure Monitor API")
           [] http = "401" ->
                /\ fm_pc' = "done"
                /\ fm_metrics' = Failed(fm_metrics, "auth_failed",
                                        "Azure authentication failed")
           [] http = "404" ->
                /\ fm_pc' = "done"
                /\ fm_metrics' = Failed(fm_metrics, "vm_not_found", "VM not found")
           [] http = "500" ->
                /\ fm_pc' = "done"
                /\ fm_metrics' = Failed(fm_metrics, "api_error",
                                        "Azure Monitor API error")
           [] OTHER ->
                /\ fm_pc' = "done"
                /\ fm_metrics' = Failed(fm_metrics, "api_call_failed", "<str(e)>")
    /\ UNCHANGED <<fm_args, fm_now, fm_query, fm_series, fm_returned>>
    /\ UNCHANGED <<pmiVars, pmVars, otherVars, handoffVars, cmVars, tbVars>>

\* Lines 335-350: the next time series with data points, of a metric of
\* some name; max_val starts as None.
FM_Series ==
    /\ fm_pc = "metric"
    /\ fm_metrics.raw_data < MaxSeries
    /\ \E metric_name \in MetricNames :
         fm_series' = [name |-> metric_name, max_val |-> NoNum, n |-> 0]
    /\ fm_pc' = "points"
    /\ UNCHANGED <<fm_args, fm_now, fm_query, fm_metrics, fm_returned>>
    /\ UNCHANGED <<pmiVars, pmVars, otherVars, handoffVars, cmVars, tbVars>>

\* Lines 353-366: one data point.  A point that cannot be read raises into
\* the except clause of lines 415-419.
FM_Point ==
    /\ fm_pc = "points"
    /\ fm_series.n < MaxPoints
    /\ \E dp \in DataPoints :
         IF dp.ok
         THEN /\ fm_series' = [fm_series EXCEPT !.max_val = NextMax(@, dp),
                                                !.n = @ + 1]
              /\ fm_returned' =
                   IF StorageKey(fm_series.name) # None /\ IsNum(Contribution(dp))
                   THEN [fm_returned EXCEPT ![StorageKey(fm_series.name)] =
                                              @ \cup {Contribution(dp)}]
                   ELSE fm_returned
              /\ UNCHANGED <<fm_pc, fm_metrics>>
         ELSE /\ fm_metrics' = Failed(fm_metrics, "api_call_failed", "<str(e)>")
              /\ fm_pc' = "done"
              /\ UNCHANGED <<fm_series, fm_returned>>
    /\ UNCHANGED <<fm_args, fm_now, fm_query>>
    /\ UNCHANGED <<pmiVars, pmVars, otherVars, handoffVars, cmVars, tbVars>>

\* Lines 368-382: the end of a time series: max_val is stored under the
\* key of the metric and the series is appended to raw_data.
FM_Store ==
    /\ fm_pc = "points"
    /\ fm_series.n >= 1
    /\ LET key == StorageKey(fm_series.name)
           counted == [fm_metrics EXCEPT !.raw_data = @ + 1]
       IN  fm_metrics' = IF IsNum(fm_series.max_val) /\ key # None
                         THEN [counted EXCEPT ![key] = fm_series.max_val]
                         ELSE counted
    /\ fm_series' = NoSeries
    /\ fm_pc' = "metric"
    /\ UNCHANGED <<fm_args, fm_now, fm_query, fm_returned>>
    /\ UNCHANGED <<pmiVars, pmVars, otherVars, handoffVars, cmVars, tbVars>>

\* Lines 386-387 and 413: every metric has been read.
FM_Finish ==
    /\ fm_pc = "metric"
    /\ fm_metrics' = [fm_metrics EXCEPT !.status = "success"]
    /\ fm_pc' = "done"
    /\ UNCHANGED <<fm_args, fm_now, fm_query, fm_series, fm_returned>>
    /\ UNCHANGED <<pmiVars, pmVars, otherVars, handoffVars, cmVars, tbVars>>

NextFetcher ==
    \/ FM_Begin
    \/ FM_Respond
    \/ FM_Series
    \/ FM_Point
    \/ FM_Store
    \/ FM_Finish

(***************************************************************************)
(* create_incident_ticket called twice with the same arguments, the second *)
(* call at a later moment of the wall clock.                               *)
(***************************************************************************)
BuilderArgs ==
    [alert_text : UnitAlerts,
     detection_time : {None, "2025-10-20T09:00:00+02:00"},
     ticket_id : SuppliedIds]

InitBuilder ==
    /\ tb_args = <<>>
    /\ tb_clock = 0
    /\ tb_tickets = <<>>

TB_First ==
    /\ tb_tickets = <<>>
    /\ \E a \in BuilderArgs, generated \in TicketIds, moment \in Moments :
         /\ moment < MaxClock
         /\ tb_args' = a
         /\ tb_clock' = moment
         /\ tb_tickets' = <<create_incident_ticket(a.alert_text, a.detection_time,
                                                   a.ticket_id, generated, moment)>>
    /\ UNCHANGED <<pmiVars, pmVars, otherVars, handoffVars, cmVars, fmVars>>

TB_Second ==
    /\ Len(tb_tickets) = 1
    /\ \E generated \in TicketIds, moment \in Moments :
         /\ moment > tb_clock
         /\ tb_clock' = moment
         /\ tb_tickets' = Append(tb_tickets,
                                 create_incident_ticket(tb_args.alert_text,
                                                        tb_args.detection_time,
                                                        tb_args.ticket_id,
                                                        generated, moment))
    /\ UNCHANGED tb_args
    /\ UNCHANGED <<pmiVars, pmVars, otherVars, handoffVars, cmVars, fmVars>>

NextBuilder ==
    \/ TB_First
    \/ TB_Second

(***************************************************************************)
(* The severity search of _parse_alert, lines 436 and 462-464, on alert    *)
(* texts taken character by character.  A text is written from two pieces  *)
(* and what stands between them.                                           *)
(***************************************************************************)
Uppers == "ABCDEFGHIJKLMNOPQRSTUVWXYZ"
Lowers == "abcdefghijklmnopqrstuvwxyz"
Digits == "0123456789"

Char(s, i) == SubSeq(s, i, i)

Occurs(c, chars) == \E i \in 1..Len(chars) : Char(chars, i) = c

IndexIn(c, chars) == CHOOSE i \in 1..Len(chars) : Char(chars, i) = c

LowerChar(c) == IF Occurs(c, Uppers) THEN Char(Lowers, IndexIn(c, Uppers)) ELSE c

UpperChar(c) == IF Occurs(c, Lowers) THEN Char(Uppers, IndexIn(c, Lowers)) ELSE c

RECURSIVE Lower(_)
\* str.lower()
Lower(s) ==
    IF s = "" THEN "" ELSE LowerChar(Char(s, 1)) \o Lower(SubSeq(s, 2, Len(s)))

\* str.capitalize()
Capitalize(s) ==
    IF s = "" THEN "" ELSE UpperChar(Char(s, 1)) \o Lower(SubSeq(s, 2, Len(s)))

\* \w of the regular expression
IsWordChar(c) == Occurs(c, Uppers) \/ Occurs(c, Lowers) \/ Occurs(c, Digits) \/ c = "_"

\* A search that takes the alternatives wherever their letters stand.
WordBoundary_Anywhere(s, i) == TRUE

\* \b between the characters i and i+1 of s (0: the start, Len(s): the end)
WordBoundary(s, i) ==
    LET before == i >= 1 /\ IsWordChar(Char(s, i))
        after == i < Len(s) /\ IsWordChar(Char(s, i + 1))
    IN  before # after

\* the alternatives of (critical|high|medium|low), in their order
SeverityWords == <<"critical", "high", "medium", "low">>

\* the pattern matches the alternative w at position i of s
SeverityMatchAt(s, i, w) ==
    /\ i + Len(w) - 1 <= Len(s)
    /\ Lower(SubSeq(s, i, i + Len(w) - 1)) = w
    /\ WordBoundary(s, i - 1)
    /\ WordBoundary(s, i + Len(w) - 1)

SeverityMatches(s) ==
    {m \in (1..Len(s)) \X (1..Len(SeverityWords)) :
        SeverityMatchAt(s, m[1], SeverityWords[m[2]])}

\* severity = "Medium"; sev_match = re.search(...); if sev_match:
\* severity = sev_match.group(1).capitalize()
SeveritySearch(alert_text) ==
    LET found == SeverityMatches(alert_text)
    IN  IF found = {} THEN "Medium"
        ELSE LET m == CHOOSE m \in found :
                        \A o \in found : \/ m[1] < o[1]
                                         \/ m[1] = o[1] /\ m[2] <= o[2]
             IN  Capitalize(SubSeq(alert_text, m[1],
                                   m[1] + Len(SeverityWords[m[2]]) - 1))

\* Pieces of alert texts: the four words in several letter cases, words that
\* hold one of them inside, and words without any.
TextPieces ==
    {"critical", "CRITICAL", "High", "hIGH", "medium", "LOW", "Slow", "highly",
     "outage", ""}

\* What stands between two pieces: a blank, punctuation, an underscore, a
\* digit, or nothing.
TextJoints == {" ", "-", ": ", "_", "5", ""}

AlertTextOf(parts) == parts[1] \o parts[2] \o parts[3]

InitParser ==
    /\ pa_parts = <<>>
    /\ pa_text = ""
    /\ pa_parsed = <<>>

ParseCall ==
    /\ pa_parts = <<>>
    /\ \E a \in TextPieces, joint \in TextJoints, b \in TextPieces :
         /\ pa_parts' = <<a, joint, b>>
         /\ pa_text' = AlertTextOf(<<a, joint, b>>)
         /\ pa_parsed' = [severity |-> SeveritySearch(AlertTextOf(<<a, joint, b>>))]
    /\ UNCHANGED <<pmiVars, pmVars, handoffVars, cmVars, fmVars, tbVars, tfVars, wfVars>>

NextParser == ParseCall

(***************************************************************************)
(* transform_monitoring_to_incident_format, main.py lines 91-129, applied  *)
(* as main applies it: once to the monitoring output (line 204) and once   *)
(* more to what that call returned (line 244).  A dict is a function on    *)
(* its keys; lists are "[]" (empty) and "[log lines]".                     *)
(***************************************************************************)
\* d.get(k, default)
GetOr(d, k, default) == IF k \in DOMAIN d THEN d[k] ELSE default

\* bool(v) for the strings, lists and None these dicts hold
IsTruthy(v) == v \notin {None, "", "[]"}

\* The keys a monitoring output may or may not have, with their values.
OptionalFields ==
    [application_name : {ABSENT, None, "AppZwaagdijk"},
     analysis_summary : {ABSENT, "Response times above 1000ms"},
     timestamp_detected : {ABSENT, "", "2025-10-24T11:59:24.577368"},
     detection_time : {ABSENT, "2025-10-21T17:07:00+02:00"},
     timestamp : {ABSENT, "2025-10-21T17:05:12+02:00"},
     related_log_lines : {ABSENT, "[]", "[log lines]"},
     abnormal_lines : {ABSENT, "[]", "[log lines]"}]

MonitoringStatuses ==
    {"abnormalities_detected", "abnormality_detected", "healthy", "error"}

\* The dict with the given status and the optional fields that are present.
MonitoringOutput(st, opt) ==
    [k \in {"status"} \cup {o \in DOMAIN opt : opt[o] # ABSENT} |->
        IF k = "status" THEN st ELSE opt[k]]

\* A transform that leaves the status as the monitor agent wrote it.
transform_monitoring_to_incident_format_SameStatus(output) ==
    [output EXCEPT !.status = output.status]

transform_monitoring_to_incident_format(output) ==
    IF DictGet(output, "status") # "abnormalities_detected"
    THEN output
    ELSE LET app == GetOr(output, "application_name", "Unknown")
             first == DictGet(output, "timestamp_detected")
             second == DictGet(output, "detection_time")
             third == DictGet(output, "timestamp")
             related == GetOr(output, "related_log_lines", "[]")
         IN  [status |-> "abnormality_detected",
              title |-> "Performance Issue Detected in " \o app,
              short_description |->
                  GetOr(output, "analysis_summary",
                        "Abnormalities detected in application logs"),
              detection_time |->
                  IF IsTruthy(first) THEN first
                  ELSE IF IsTruthy(second) THEN second
                  ELSE IF IsTruthy(third) THEN third
                  ELSE "",
              application_name |-> app,
              related_log_lines |->
                  IF IsTruthy(related) THEN related
                  ELSE GetOr(output, "abnormal_lines", "[]"),
              timestamp_detected |->
                  GetOr(output, "timestamp_detected", "")]

InitTransform ==
    /\ tf_in = <<>>
    /\ tf_out = <<>>
    /\ tf_again = <<>>

\* main.py line 204.
TransformFirst ==
    /\ tf_in = <<>>
    /\ \E st \in MonitoringStatuses, opt \in OptionalFields :
         /\ tf_in' = MonitoringOutput(st, opt)
         /\ tf_out' = transform_monitoring_to_incident_format(MonitoringOutput(st, opt))
    /\ UNCHANGED tf_again
    /\ UNCHANGED <<pmiVars, pmVars, handoffVars, cmVars, fmVars, tbVars, paVars, wfVars>>

\* main.py line 244.
TransformSecond ==
    /\ tf_out # <<>>
    /\ tf_again = <<>>
    /\ tf_again' = transform_monitoring_to_incident_format(tf_out)
    /\ UNCHANGED <<tf_in, tf_out>>
    /\ UNCHANGED <<pmiVars, pmVars, handoffVars, cmVars, fmVars, tbVars, paVars, wfVars>>

NextTransform ==
    \/ TransformFirst
    \/ TransformSecond

(***************************************************************************)
(* The integrated workflow, main.py lines 132-530, with the monitor        *)
(* agent's analysis (monitor_agent.py lines 60-199) as its first step and  *)
(* the Slack senders of the report and benefits agents as the tool calls   *)
(* their agents make.  resolution_agent.py is not part of the sources: its *)
(* post_message is taken to return a text, as the other agents' do.        *)
(***************************************************************************)
\* max_iterations of check_for_abnormalities: 120 in the code.
MaxIterations == 2

StepOrder == <<"Monitoring", "Incident Detection", "Resolution", "Report", "Benefits">>

\* ---- monitor_agent.check_for_abnormalities ----
AnalysisDict(found, app, lines, analysis) ==
    [abnormalities_found |-> found, application_name |-> app,
     abnormal_lines |-> lines, analysis |-> analysis]

\* An analysis that reports abnormalities when the run did not complete.
AnalysisFailed_Found(st) ==
    AnalysisDict(TRUE, "Unknown", "[]", "Analysis failed with status: " \o st)

\* Lines 158-165: the run left the loop in another status than completed.
AnalysisFailed(st) ==
    AnalysisDict(FALSE, "Unknown", "[]", "Analysis failed with status: " \o st)

\* Lines 166-173: the except clause of the whole function.
AnalysisRaised == AnalysisDict(FALSE, "Unknown", "[]", "Error during analysis: <str(e)>")

\* What get_last_message_by_role finds after a completed run: nothing, a
\* text holding a JSON object, a text json.loads rejects (which may mention
\* "response time"), or a JSON text that is no object.
JsonReplies ==
    LET rest == {[k \in {o \in DOMAIN opt : opt[o] # ABSENT} |-> opt[k]] :
                    opt \in [application_name : {ABSENT, "AppZwaagdijk"},
                             abnormal_lines : {"[]", "[log lines]"},
                             summary : {ABSENT, "Critical service-x outage"}]}
    IN  rest \cup {[abnormalities_found |-> found] @@ r :
                      found \in BOOLEAN, r \in rest}

AgentReplies ==
    {[kind |-> "none"], [kind |-> "scalar"]}
        \cup [kind : {"text"}, mentions : BOOLEAN]
        \cup {[kind |-> "json", r |-> r] : r \in JsonReplies}

\* Lines 123-157: the result for a completed run.
AnalysisOf(reply) ==
    IF reply.kind = "none"
    THEN AnalysisDict(FALSE, "Unknown", "[]", "Unable to complete analysis")
    ELSE IF reply.kind = "scalar" THEN AnalysisRaised
    ELSE IF reply.kind = "text"
    THEN AnalysisDict(reply.mentions, "Unknown", "[]", "<analysis text>")
    ELSE AnalysisDict(GetOr(reply.r, "abnormalities_found", FALSE),
                      GetOr(reply.r, "application_name", "Unknown"),
                      GetOr(reply.r, "abnormal_lines", "[]"),
                      GetOr(reply.r, "summary", "<analysis text>"))

\* monitor_agent.collect_abnormalities_output, lines 177-199; moment is the
\* clock read when no abnormal line gives a time.
collect_abnormalities_output(analysis, moment) ==
    IF ~analysis.abnormalities_found
    THEN [status |-> "healthy",
          message |-> "No abnormalities detected in logs. All response times appear normal.",
          application_name |-> None, abnormal_lines |-> "[]"]
    ELSE [status |-> "abnormalities_detected",
          application_name |-> analysis.application_name,
          abnormal_lines |-> analysis.abnormal_lines,
          analysis_summary |-> analysis.analysis,
          timestamp |-> IF analysis.abnormal_lines = "[log lines]"
                        THEN "2025-10-21T18:46:00+02:00"
                        ELSE NowStamp(moment)]

\* main.py lines 200-204: what step 1 leaves in monitoring_output.
MonitoringOutputOf(analysis, moment) ==
    LET collected == collect_abnormalities_output(analysis, moment)
    IN  IF collected.status = "abnormalities_detected"
        THEN transform_monitoring_to_incident_format(collected)
        ELSE collected

\* ---- process_monitoring_incident as main awaits it ----
\* The dict as process_monitoring_incident receives it.
AsPayload(d) ==
    [shape |-> "object",
     f |-> [k \in DOMAIN NoFields |-> IF k \in DOMAIN d THEN d[k] ELSE ABSENT]]

\* The result of one call: the flow of process_monitoring_incident and
\* raise_incident_in_slack for the payload d, the ticket id drawn, what the
\* metrics fetch returned and what Slack did.
IncidentResultOf(d, tid, metrics, env) ==
    LET p == Prologue([kind |-> "dict", data |-> d])
        sev == SeverityOf(d.f.title, d.f.short_description)
        created == create_incident_ticket(AlertText(d), Get(d, "detection_time"),
                                          tid, tid, 1)
        fetched == created @@ [metrics |-> metrics]
        correlated == fetched @@ [correlation |->
                                    correlate_metrics(fetched.triage, metrics)]
        sent == async_send_to_slack(env, correlated.title, correlated.id,
                                    Or(sev, correlated.triage.severity),
                                    Or(Get(d, "application_name"),
                                       Or(correlated.triage.service, "")))
        full_ticket ==
            RecordDelivery(correlated, sent) @@
              [monitoring_source |->
                  [status |-> Get(d, "status"),
                   detection_time |-> Get(d, "detection_time"),
                   related_log_lines |-> Get(d, "related_log_lines")]]
    IN  IF p.to # "ris_create" THEN p.result
        ELSE SuccessResult(d, tid, sev, full_ticket)

\* The fetch results and Slack outcomes the workflow is run with.
WorkflowMetrics == {MetricsFailure("vm_not_found"), MetricsPartial(81)}

WorkflowSlackEnvs ==
    {env \in SlackEnvs :
        \/ env.available /\ ~env.token
        \/ env.first.kind = "SlackApiError"
        \/ env.first.kind = "ok" /\ env.first.channel # None}

\* A gate that lets every result of incident detection through.
IncidentCreated_AnyResult(r) == r # <<>>

\* incident_result and incident_result.get("status") == "success"
IncidentCreated(r) == r # <<>> /\ DictGet(r, "status") = "success"

\* ---- steps 3 to 5 ----
\* What post_to_resolution_agent returns.
ResolutionTexts ==
    {"VM rebooted, issue resolved", "Escalate to on-call engineer",
     "Reboot FAILED", "An error occurred during resolution"}

\* needle in text
Contains(text, needle) ==
    \E i \in 1..(Len(text) - Len(needle) + 1) :
        SubSeq(text, i, i + Len(needle) - 1) = needle

\* main.py lines 400-405
should_broadcast(resolution, sev) ==
    \/ Contains(Lower(resolution), "escalate")
    \/ sev = "Critical"
    \/ Contains(Lower(resolution), "failed")
    \/ Contains(Lower(resolution), "error")

\* The thread_ts and reply_broadcast arguments an agent may put in its tool
\* call, whatever the request said.
ToolThreadRefs == {None, "", "1729523220.000100"}

\* report_agent.async_send_to_slack, lines 146-163: message_params
ReportMessageParams(thread_ts, reply_broadcast) ==
    LET message_params ==
            [channel |-> DefaultChannel, blocks |-> "<blocks>", text |-> "New Ticket"]
    IN  IF IsTruthy(thread_ts)
        THEN IF reply_broadcast
             THEN message_params @@ [thread_ts |-> thread_ts, reply_broadcast |-> TRUE]
             ELSE message_params @@ [thread_ts |-> thread_ts]
        ELSE message_params

\* benefits_agent.async_send_benefits_to_slack, lines 248-262: message_params
BenefitsMessageParams(thread_ts) ==
    LET message_params ==
            [channel |-> DefaultChannel, blocks |-> "<blocks>",
             text |-> "Benefits Analysis"]
    IN  IF IsTruthy(thread_ts)
        THEN message_params @@ [thread_ts |-> thread_ts]
        ELSE message_params

InitWorkflow ==
    /\ wf_pc = "start"
    /\ steps = <<>>
    /\ mon_run = None
    /\ mon_iteration = 0
    /\ analysis_ended = None
    /\ analysis_result = <<>>
    /\ monitoring_output = <<>>
    /\ incident_result = <<>>
    /\ resolution_result = None
    /\ wf_ticket_id = None
    /\ slack_thread_ts = None
    /\ report_request = <<>>
    /\ report_sent = <<>>
    /\ benefits_request = <<>>
    /\ benefits_sent = <<>>

\* Lines 158-180 and monitor_agent.py 76-107: step 1 up to the creation of
\* the analysis run.  Without the monitor module the output is "healthy";
\* a missing storage account, a failing agent creation or log download is
\* an "error" output; a failing message or run creation ends the analysis
\* in its except clause.
Main_Monitor ==
    /\ wf_pc = "start"
    /\ \/ /\ monitoring_output' =
                [status |-> "healthy", message |-> "Monitoring agent not available"]
          /\ wf_pc' = "detect"
          /\ UNCHANGED <<steps, mon_run, analysis_ended, analysis_result>>
       \/ /\ steps' = Append(steps, "Monitoring")
          /\ monitoring_output' = [status |-> "error", message |-> "<str(e)>"]
          /\ wf_pc' = "detect"
          /\ UNCHANGED <<mon_run, analysis_ended, analysis_result>>
       \/ /\ steps' = Append(steps, "Monitoring")
          /\ analysis_ended' = "raised"
          /\ analysis_result' = AnalysisRaised
          /\ \E moment \in Moments :
                monitoring_output' = MonitoringOutputOf(AnalysisRaised, moment)
          /\ wf_pc' = "detect"
          /\ UNCHANGED mon_run
       \/ /\ steps' = Append(steps, "Monitoring")
          /\ \E st \in RunStatuses : mon_run' = st
          /\ wf_pc' = "mon_poll"
          /\ UNCHANGED <<analysis_ended, analysis_result, monitoring_output>>
    /\ UNCHANGED <<mon_iteration, incident_result, resolution_result, wf_ticket_id,
                   slack_thread_ts, report_request, report_sent, benefits_request,
                   benefits_sent>>
    /\ UNCHANGED <<pmiVars, pmVars, handoffVars, cmVars, fmVars, tbVars, paVars, tfVars>>

\* while run.status in ("queued", "in_progress", "requires_action")
\*       and iteration < max_iterations
MonLoopCond == mon_run \in ActiveStatuses /\ mon_iteration < MaxIterations

\* monitor_agent.py lines 112-116: one sleep and one runs.get; a poll that
\* raises ends the analysis in its except clause.
Main_MonPoll ==
    /\ wf_pc = "mon_poll"
    /\ MonLoopCond
    /\ \/ \E st \in RunStatuses :
            /\ mon_run' = st
            /\ mon_iteration' = mon_iteration + 1
            /\ UNCHANGED <<wf_pc, analysis_ended, analysis_result, monitoring_output>>
       \/ \E moment \in Moments :
            /\ analysis_ended' = "raised"
            /\ analysis_result' = AnalysisRaised
            /\ monitoring_output' = MonitoringOutputOf(AnalysisRaised, moment)
            /\ wf_pc' = "detect"
            /\ mon_run' = None
            /\ mon_iteration' = 0
    /\ UNCHANGED <<steps, incident_result, resolution_result, wf_ticket_id,
                   slack_thread_ts, report_request, report_sent, benefits_request,
                   benefits_sent>>
    /\ UNCHANGED <<pmiVars, pmVars, handoffVars, cmVars, fmVars, tbVars, paVars, tfVars>>

\* monitor_agent.py lines 118-165 and main.py lines 200-204: the loop is
\* over; the result of the analysis is collected and transformed.
Main_MonFinish ==
    /\ wf_pc = "mon_poll"
    /\ ~MonLoopCond
    /\ IF mon_run = "completed"
       THEN \E reply \in AgentReplies, moment \in Moments :
              /\ analysis_ended' = IF reply.kind = "scalar" THEN "raised"
                                   ELSE "completed"
              /\ analysis_result' = AnalysisOf(reply)
              /\ monitoring_output' = MonitoringOutputOf(AnalysisOf(reply), moment)
       ELSE \E moment \in Moments :
              /\ analysis_ended' = "not_completed"
              /\ analysis_result' = AnalysisFailed(mon_run)
              /\ monitoring_output' = MonitoringOutputOf(AnalysisFailed(mon_run), moment)
    /\ wf_pc' = "detect"
    /\ mon_run' = None
    /\ mon_iteration' = 0
    /\ UNCHANGED <<steps, incident_result, resolution_result,
                   wf_ticket_id, slack_thread_ts, report_request, report_sent,
                   benefits_request, benefits_sent>>
    /\ UNCHANGED <<pmiVars, pmVars, handoffVars, cmVars, fmVars, tbVars, paVars, tfVars>>

\* Lines 233-305: step 2.  The call, or the printing of its result, may
\* raise, which leaves an "error" result.
Main_Detect ==
    /\ wf_pc = "detect"
    /\ \E has_incident \in BOOLEAN :
         IF has_incident /\ DictGet(monitoring_output, "status") = "abnormality_detected"
         THEN /\ steps' = Append(steps, "Incident Detection")
              /\ \/ \E tid \in TicketIds, metrics \in WorkflowMetrics,
                       env \in WorkflowSlackEnvs :
                      LET transformed_data ==
                              transform_monitoring_to_incident_format(monitoring_output)
                          returned == IncidentResultOf(AsPayload(transformed_data),
                                                       tid, metrics, env)
                      IN  /\ incident_result' = returned
                          /\ IF DictGet(returned, "status") = "success"
                             THEN /\ wf_ticket_id' = DictGet(returned, "ticket_id")
                                  /\ slack_thread_ts' = DictGet(returned, "slack_thread_ts")
                             ELSE UNCHANGED <<wf_ticket_id, slack_thread_ts>>
                 \/ /\ incident_result' = [status |-> "error", message |-> "<str(e)>"]
                    /\ UNCHANGED <<wf_ticket_id, slack_thread_ts>>
         ELSE UNCHANGED <<steps, incident_result, wf_ticket_id, slack_thread_ts>>
    /\ wf_pc' = "resolve"
    /\ UNCHANGED <<mon_run, mon_iteration, analysis_ended, analysis_result,
                   monitoring_output, resolution_result, report_request, report_sent,
                   benefits_request, benefits_sent>>
    /\ UNCHANGED <<pmiVars, pmVars, handoffVars, cmVars, fmVars, tbVars, paVars, tfVars>>

\* Lines 310-377: step 3.
Main_Resolve ==
    /\ wf_pc = "resolve"
    /\ \E has_resolution \in BOOLEAN :
         IF has_resolution /\ IncidentCreated(incident_result)
         THEN /\ steps' = Append(steps, "Resolution")
              /\ \E text \in ResolutionTexts \cup {"Unable to resolve issue automatically"} :
                    resolution_result' = text
         ELSE UNCHANGED <<steps, resolution_result>>
    /\ wf_pc' = "report"
    /\ UNCHANGED <<mon_run, mon_iteration, analysis_ended, analysis_result,
                   monitoring_output, incident_result, wf_ticket_id, slack_thread_ts,
                   report_request, report_sent, benefits_request, benefits_sent>>
    /\ UNCHANGED <<pmiVars, pmVars, handoffVars, cmVars, fmVars, tbVars, paVars, tfVars>>

\* Lines 382-459: step 4.  The request to the report agent carries the
\* ticket id, the thread timestamp and the broadcast decision; the agent may
\* then call async_send_to_slack with arguments of its own choosing.  An
\* exception before the request (create_report_agent, or .lower() of a
\* resolution_result that is None) sets ticket_id to "INC-ERROR-001".
Main_Report ==
    /\ wf_pc = "report"
    /\ \E has_report \in BOOLEAN, created \in BOOLEAN,
          call \in {<<>>} \cup [thread_ts : ToolThreadRefs, reply_broadcast : BOOLEAN] :
         IF has_report /\ IncidentCreated(incident_result)
         THEN /\ steps' = Append(steps, "Report")
              /\ IF ~created \/ resolution_result = None
                 THEN /\ call = <<>>
                      /\ wf_ticket_id' = "INC-ERROR-001"
                      /\ UNCHANGED <<report_request, report_sent>>
                 ELSE /\ report_request' =
                           [ticket_id |-> wf_ticket_id,
                            thread_ts |-> slack_thread_ts,
                            reply_broadcast |->
                                should_broadcast(resolution_result,
                                                 GetOr(incident_result, "severity", "High"))]
                      /\ report_sent' =
                           IF call = <<>> THEN <<>>
                           ELSE [call |-> call,
                                 message_params |->
                                     ReportMessageParams(call.thread_ts,
                                                         call.reply_broadcast)]
                      /\ UNCHANGED wf_ticket_id
         ELSE /\ created /\ call = <<>>
              /\ UNCHANGED <<steps, wf_ticket_id, report_request, report_sent>>
    /\ wf_pc' = "benefits"
    /\ UNCHANGED <<mon_run, mon_iteration, analysis_ended, analysis_result,
                   monitoring_output, incident_result, resolution_result,
                   slack_thread_ts, benefits_request, benefits_sent>>
    /\ UNCHANGED <<pmiVars, pmVars, handoffVars, cmVars, fmVars, tbVars, paVars, tfVars>>

\* Lines 464-530: step 5.
Main_Benefits ==
    /\ wf_pc = "benefits"
    /\ \E has_benefits \in BOOLEAN, created \in BOOLEAN,
          call \in {<<>>} \cup [thread_ts : ToolThreadRefs] :
         IF has_benefits /\ IncidentCreated(incident_result) /\ Truthy(wf_ticket_id)
         THEN /\ steps' = Append(steps, "Benefits")
              /\ IF ~created
                 THEN /\ call = <<>>
                      /\ UNCHANGED <<benefits_request, benefits_sent>>
                 ELSE /\ benefits_request' =
                           [ticket_id |-> wf_ticket_id, thread_ts |-> slack_thread_ts]
                      /\ benefits_sent' =
                           IF call = <<>> THEN <<>>
                           ELSE [call |-> call,
                                 message_params |-> BenefitsMessageParams(call.thread_ts)]
         ELSE /\ created /\ call = <<>>
              /\ UNCHANGED <<steps, benefits_request, benefits_sent>>
    /\ wf_pc' = "summary"
    /\ UNCHANGED <<mon_run, mon_iteration, analysis_ended, analysis_result,
                   monitoring_output, incident_result, resolution_result, wf_ticket_id,
                   slack_thread_ts, report_request, report_sent>>
    /\ UNCHANGED <<pmiVars, pmVars, handoffVars, cmVars, fmVars, tbVars, paVars, tfVars>>

\* Lines 532-546: the summary is printed.
Main_Summary ==
    /\ wf_pc = "summary"
    /\ wf_pc' = "done"
    /\ UNCHANGED <<steps, mon_run, mon_iteration, analysis_ended, analysis_result,
                   monitoring_output, incident_result, resolution_result, wf_ticket_id,
                   slack_thread_ts, report_request, report_sent, benefits_request,
                   benefits_sent>>
    /\ UNCHANGED <<pmiVars, pmVars, handoffVars, cmVars, fmVars, tbVars, paVars, tfVars>>

NextWorkflow ==
    \/ Main_Monitor
    \/ Main_MonPoll
    \/ Main_MonFinish
    \/ Main_Detect
    \/ Main_Resolve
    \/ Main_Report
    \/ Main_Benefits
    \/ Main_Summary

InitUnits ==
    /\ InitHandoff /\ InitCorrelator /\ InitFetcher /\ InitBuilder
    /\ InitParser /\ InitTransform /\ InitWorkflow

(***************************************************************************)
(* Specifications: the incident flow alone, the polling loop alone, and    *)
(* each function of the incident module on its own calls.                  *)
(***************************************************************************)
Init == InitIncident /\ InitPoller /\ InitUnits

Spec == Init /\ [][NextIncident]_vars

SpecPoller == Init /\ [][NextPoller]_vars

SpecHandoff == Init /\ [][NextHandoff]_vars

SpecCorrelator == Init /\ [][NextCorrelator]_vars

SpecFetcher == Init /\ [][NextFetcher]_vars

SpecBuilder == Init /\ [][NextBuilder]_vars

SpecParser == Init /\ [][NextParser]_vars

SpecTransform == Init /\ [][NextTransform]_vars

SpecWorkflow == Init /\ [][NextWorkflow]_vars

\* The workflow is run to its end: no step of main waits for ever.
SpecWorkflowLive == SpecWorkflow /\ WF_vars(NextWorkflow)

(***************************************************************************)
(* Properties of the incident flow (checked under Spec).                   *)
(***************************************************************************)
Returned == pc = "returned"
Over == pc \in {"returned", "raised"}
AllPresent(d) == \A i \in 1..Len(required_fields) : d.f[required_fields[i]] # ABSENT

\* C1: process_monitoring_incident never lets an exception reach its
\* caller; whatever the input, it ends by returning a result.
C1_NoExceptionPropagates == raised = None /\ pc # "raised"

\* C2: every payload that has the six required fields and status
\* "abnormality_detected" ends with a ticket whose slack_delivery_status is
\* not None and with the result status "success".
C2_BestEffortSuccess ==
    (Over /\ data.shape = "object" /\ AllPresent(data)
          /\ data.f.status = "abnormality_detected")
        => /\ Returned
           /\ result.status = "success"
           /\ DictGet(ticket, "slack_delivery_status") # None

\* The missing fields in required-field order, written out field by field.
ExpectedMissing(d) ==
    LET P(k) == IF d.f[k] = ABSENT THEN <<k>> ELSE <<>>
    IN  P("status") \o P("title") \o P("short_description")
          \o P("detection_time") \o P("application_name")
          \o P("related_log_lines")

NothingDone ==
    /\ DOMAIN ticket = {}
    /\ fetch_calls = 0
    /\ notify_calls = 0
    /\ transport_calls = <<>>

\* C3: a payload that lacks one or more required fields, whatever its
\* status, is answered with status "error", error "Invalid monitoring
\* input" and exactly the missing fields in required-field order; no
\* ticket is built, no metrics are fetched, nothing is sent.
C3_MissingFieldsRejected ==
    (pc # "idle" /\ data.shape \in {"object", "sequence"} /\ ~AllPresent(data))
        => /\ Returned
           /\ result.status = "error"
           /\ result.error = "Invalid monitoring input"
           /\ result.detail = ExpectedMissing(data)
           /\ NothingDone

C3_Witness ==
    /\ Returned
    /\ data.shape = "object"
    /\ data.f.status = "abnormality_detected"
    /\ data.f.application_name = ABSENT
    /\ result.status = "error"
    /\ result.detail = <<"application_name">>

\* C4: a complete payload whose status is not "abnormality_detected" is
\* answered with status "no_incident"; no ticket is built, no metrics are
\* fetched, nothing is sent.
C4_NoIncidentWithoutAbnormality ==
    (pc # "idle" /\ data.shape = "object" /\ AllPresent(data)
          /\ data.f.status # "abnormality_detected")
        => /\ Returned
           /\ result.status = "no_incident"
           /\ NothingDone

C4_Witness ==
    /\ Returned
    /\ data.shape = "object"
    /\ AllPresent(data)
    /\ data.f.status = "healthy"
    /\ data.f.title = None
    /\ result.status = "no_incident"

\* raise_incident_in_slack has returned its ticket.
TicketReturned == pc \in {"pmi_finish", "returned"} /\ DOMAIN ticket # {}

\* C5: the ticket returned by raise_incident_in_slack carries a
\* resolution_handoff field with the outcome of the hand-off.
C5_HandoffRecorded == TicketReturned => "resolution_handoff" \in DOMAIN ticket

\* C6: the returned ticket records the delivery consistently: on "success"
\* it holds the notifier's message timestamp and channel and no slack_error;
\* otherwise it holds slack_error and neither slack_ts nor slack_channel.
C6_DeliveryFieldsConsistent ==
    TicketReturned =>
        LET st == DictGet(ticket, "slack_delivery_status")
        IN  /\ st = slack_result.delivery_status
            /\ (st = "success") <=> ({"slack_ts", "slack_channel"} \subseteq DOMAIN ticket)
            /\ st = "success" =>
                 /\ ticket.slack_ts = slack_result.slack_message_ts
                 /\ ticket.slack_channel =
                      (IF slack_result.slack_channel_id # None
                       THEN slack_result.slack_channel_id
                       ELSE slack_result.slack_channel)
                 /\ "slack_error" \notin DOMAIN ticket
            /\ st # "success" =>
                 /\ "slack_error" \in DOMAIN ticket
                 /\ ticket.slack_error = slack_result.error
                 /\ "slack_ts" \notin DOMAIN ticket
                 /\ "slack_channel" \notin DOMAIN ticket

C6_Witness ==
    /\ TicketReturned
    /\ ticket.slack_delivery_status = "success"
    /\ ticket.slack_ts = "1729523220.000100"
    /\ ticket.slack_channel = "C0123456789"
    /\ Len(transport_calls) = 2

(***************************************************************************)
(* Properties of the polling loop (checked under SpecPoller).              *)
(***************************************************************************)
Done == pm_pc = "done"

\* C7: a run that every poll found in_progress, until the loop gave up,
\* yields the timed-out text, which is neither the text for a failed run
\* nor an agent message.
C7_InProgressRunTimesOut ==
    (Done /\ polls >= 1 /\ only_in_progress)
        => /\ pm_result = TimedOutText(agent)
           /\ TimedOutText(agent) # FailedText(agent)
           /\ pm_result # AgentMessage

C7_Witness ==
    /\ Done
    /\ polls >= 2
    /\ only_in_progress
    /\ waited = timeout_seconds
    /\ pm_result = TimedOutText(agent)

\* C8: when the loop ends with the run last seen completed, and the thread
\* holds an agent message, the result is that message, also when completion
\* is first seen on the poll at which waited reaches timeout_seconds.
C8_CompletedYieldsMessage ==
    (Done /\ run.status = "completed" /\ thread_msg = "text")
        => pm_result = AgentMessage

Ids(outputs) == [i \in 1..Len(outputs) |-> outputs[i].tool_call_id]
CallIdsOf(calls) == [i \in 1..Len(calls) |-> calls[i].id]

\* The poll's tool handling is over: the loop is about to test its
\* condition again, or post_message has returned.
HandlingOver == pm_pc \in {"loop", "done"} /\ ~tool_error

\* C9 as stated: after a poll that found the run in requires_action with
\* pending tool calls, and before the next poll, exactly one batch has been
\* submitted, holding one output per pending call, keyed by the call's id.
C9_OneOutputPerPendingCall ==
    (HandlingOver /\ seen.status = "requires_action" /\ seen.tool_calls # <<>>)
        => /\ Len(batches) = 1
           /\ Ids(batches[1]) = CallIdsOf(seen.tool_calls)

\* The ids of the calls whose function name the agent's post_message handles.
HandledIds(a, calls) ==
    CallIdsOf(SelectSeq(calls, LAMBDA c : c.name \in HandledNames(a)))

\* C9, amended: after a poll that found the run in requires_action, and
\* before the next poll, the calls with a handled name have been dispatched
\* in order; if there is one, exactly one batch was submitted, holding one
\* output per handled call keyed by the call's id; if there is none, nothing
\* was submitted.  At no time is more than one batch submitted per poll.
C9_OneBatchOfHandledCalls ==
    /\ Len(batches) <= 1
    /\ (HandlingOver /\ seen.status = "requires_action" /\ seen.required_action)
         => IF HandledIds(agent, seen.tool_calls) = <<>>
            THEN batches = <<>>
            ELSE /\ Len(batches) = 1
                 /\ Ids(batches[1]) = HandledIds(agent, seen.tool_calls)

C9_Witness ==
    /\ pm_pc = "loop"
    /\ ~tool_error
    /\ seen.status = "requires_action"
    /\ Len(seen.tool_calls) = 2
    /\ seen.tool_calls[1].name = "unknown_tool"
    /\ Len(batches) = 1
    /\ Ids(batches[1]) = <<"call_b">>

NonSuccessTexts(a) ==
    {TimedOutText(a), FailedText(a), NoResponseText(a), RetrievalErrorText(a),
     UnableText(a), ErrorText(a)}

\* C10: once a handler, the decoding of arguments or the submission has
\* raised, no further poll and no further submission is made, the loop is
\* left, and post_message returns a text that is not an agent message.
C10_ToolFailureStopsLoop ==
    /\ [][tool_error => (polls' = polls /\ submits' = submits)]_vars
    /\ [](tool_error => pm_pc \in {"broken", "done"})
    /\ [](tool_error /\ Done =>
            pm_result \in NonSuccessTexts(agent) /\ pm_result # AgentMessage)

C10_Witness ==
    /\ tool_error
    /\ Done
    /\ submits = 1
    /\ polls = 1
    /\ waited < timeout_seconds
    /\ pm_result = UnableText(agent)

(***************************************************************************)
(* Properties of send_to_resolution_agent (checked under SpecHandoff).     *)
(***************************************************************************)
HandedOff == handoff_call # <<>>

\* C11: send_to_resolution_agent never raises.  It returns {sent: false,
\* detail: "no resolution agent found"} when no collaborator can be imported,
\* {sent: true, response} when the collaborator, sync or async, returns, and
\* {sent: false, error: <message>} when the collaborator raises.
C11_HandoffNeverRaises ==
    /\ handoff_raised = None
    /\ HandedOff =>
         LET collab == handoff_call.collab
         IN  /\ collab.import # "ok" =>
                  handoff_result =
                      [sent |-> FALSE, detail |-> "no resolution agent found"]
             /\ (collab.import = "ok" /\ collab.does = "returns") =>
                  handoff_result = [sent |-> TRUE, response |-> collab.value]
             /\ (collab.import = "ok" /\ collab.does = "raises") =>
                  handoff_result = [sent |-> FALSE, error |-> collab.value]

C11_Witness ==
    /\ HandedOff
    /\ handoff_call.collab.kind = "async"
    /\ handoff_call.collab.does = "raises"
    /\ handoff_call.ticket.id = "TCK-7"
    /\ handoff_call.received.incident_id = "TCK-7"
    /\ handoff_result = [sent |-> FALSE, error |-> "resolution agent down"]
    /\ handoff_raised = None

(***************************************************************************)
(* Properties of correlate_metrics (checked under SpecCorrelator).         *)
(***************************************************************************)
Correlated == cm_summary # <<>>

\* The metrics argument is empty, has no status, or has one that is not
\* "success".
NotSuccess(metrics) ==
    \/ DOMAIN metrics = {}
    \/ "status" \notin DOMAIN metrics
    \/ metrics.status # "success"

\* C12: for every metrics record that is empty or whose status is not
\* "success" (a record with no status included), correlate_metrics returns
\* correlated = false with exactly one reason note and reads none of the
\* per-signal values, whatever they are; for status "error" the note carries
\* the recorded error.
C12_GateClosesWithoutReadingValues ==
    (Correlated /\ NotSuccess(cm_metrics)) =>
        /\ cm_summary.correlated = FALSE
        /\ Len(cm_summary.notes) = 1
        /\ cm_read = {}
        /\ ("status" \in DOMAIN cm_metrics /\ cm_metrics.status = "error") =>
              /\ cm_summary.notes[1].text = "Metrics fetch error"
              /\ cm_summary.notes[1].arg = DictGet(cm_metrics, "error")

C12_Witness ==
    /\ Correlated
    /\ DOMAIN cm_metrics = {"cpu_max", "memory_max"}
    /\ cm_metrics.cpu_max = 81
    /\ cm_summary.correlated = FALSE
    /\ Len(cm_summary.notes) = 1

\* The texts of the notes of a summary.
NoteTexts(summary) == {summary.notes[i].text : i \in DOMAIN summary.notes}

\* C13: for metrics with status "success", correlated is true if and only if
\* cpu_max > 80 or memory_max, network_in_max or network_out_max is above
\* 1,000,000,000; a disk maximum above 100,000,000 adds a note and nothing
\* else; a value exactly at its threshold does not trigger.
C13_ThresholdsDecideCorrelated ==
    (Correlated /\ ~NotSuccess(cm_metrics)) =>
        /\ cm_summary.correlated <=>
              \/ cm_metrics.cpu_max > 80
              \/ cm_metrics.memory_max > 1000000000
              \/ cm_metrics.network_in_max > 1000000000
              \/ cm_metrics.network_out_max > 1000000000
        /\ "High disk read activity" \in NoteTexts(cm_summary)
              <=> cm_metrics.disk_read_max > 100000000
        /\ "High disk write activity" \in NoteTexts(cm_summary)
              <=> cm_metrics.disk_write_max > 100000000
        /\ "High CPU peak observed" \in NoteTexts(cm_summary)
              <=> cm_metrics.cpu_max > 80

C13_Witness ==
    /\ Correlated
    /\ ~NotSuccess(cm_metrics)
    /\ cm_metrics.cpu_max = 80
    /\ cm_metrics.memory_max = 1000000000
    /\ cm_metrics.network_in_max = 1000000000
    /\ cm_metrics.network_out_max = 1000000000
    /\ cm_metrics.disk_read_max = 100000001
    /\ cm_summary.correlated = FALSE
    /\ Len(cm_summary.notes) = 2

\* C14 as stated: every result of correlate_metrics has ml_score = 0.65 if
\* correlated is true and 0.3 otherwise.
C14_EveryResultIsScored ==
    Correlated => cm_summary.ml_score = IF cm_summary.correlated THEN 65 ELSE 30

\* C14, amended: a result for metrics with status "success" has ml_score =
\* 0.65 if correlated is true and 0.3 otherwise, so that with every other
\* signal below its threshold cpu_max = 79 gives (false, 0.3) and cpu_max =
\* 81 gives (true, 0.65); a result for empty or non-success metrics has
\* correlated = false and no score (ml_score is None).
C14_SuccessResultIsScored ==
    Correlated =>
        IF NotSuccess(cm_metrics)
        THEN cm_summary.ml_score = NoNum /\ ~cm_summary.correlated
        ELSE /\ cm_summary.ml_score = IF cm_summary.correlated THEN 65 ELSE 30
             /\ (/\ cm_metrics.memory_max <= 1000000000
                 /\ cm_metrics.network_in_max <= 1000000000
                 /\ cm_metrics.network_out_max <= 1000000000) =>
                   /\ cm_metrics.cpu_max = 79 =>
                        ~cm_summary.correlated /\ cm_summary.ml_score = 30
                   /\ cm_metrics.cpu_max = 81 =>
                        cm_summary.correlated /\ cm_summary.ml_score = 65

C14_Witness ==
    /\ Correlated
    /\ ~NotSuccess(cm_metrics)
    /\ cm_metrics.cpu_max = 81
    /\ cm_metrics.memory_max = 1000000000
    /\ cm_metrics.network_in_max = 1000000000
    /\ cm_metrics.network_out_max = 1000000000
    /\ cm_summary.correlated
    /\ cm_summary.ml_score = 65

(***************************************************************************)
(* Properties of the metrics fetcher (checked under SpecFetcher).          *)
(***************************************************************************)
Fetched == fm_pc = "done"

\* C15: whenever the fetcher returns a status other than "success", a
\* failure raised part-way through the response included, all six
\* per-signal fields are None.
C15_FailureLeavesSignalsNone ==
    (Fetched /\ fm_metrics.status # "success") =>
        \A k \in Signals : NumGet(fm_metrics, k) = NoNum

\* The highest of a set of values, None for the empty set.
Highest(values) ==
    IF values = {} THEN NoNum
    ELSE CHOOSE v \in values : \A w \in values : w <= v

\* C16: for each signal the stored value is the single highest value over
\* all data points returned for that signal, across every time series of
\* the metric, each data point contributing its maximum if present and
\* non-null, else its total, else its average.
C16_StoredIsHighestReturned ==
    (Fetched /\ fm_metrics.status = "success") =>
        \A k \in Signals : fm_metrics[k] = Highest(fm_returned[k])

\* The arguments differ in nothing but the detection time, whatever its
\* source.
SameButDetectionTime(a, b) ==
    a.vm_name = b.vm_name /\ a.lookback_seconds = b.lookback_seconds

BuiltTwice == Len(tb_tickets) = 2

SameBut(t1, t2, stamp) ==
    [t1 EXCEPT !.created_at = stamp, !.triage.timestamp = stamp]
        = [t2 EXCEPT !.created_at = stamp, !.triage.timestamp = stamp]

\* The tickets agree on every field but created_at.
SameButCreatedAt(t1, t2) ==
    SameBut(t1, t2, "") /\ t1.triage.timestamp = t2.triage.timestamp

\* The alert text holds an ISO 8601 timestamp: a detection time or a log
\* line that starts with one.
EmbedsTimestamp(text) ==
    text.detection_time # None \/ text.related_log_lines = "[log lines]"

DigitTexts == {"0", "1", "2", "3", "4", "5", "6", "7", "8", "9"}

\* "INC" followed by seven decimal digits.
IsIncId(id) ==
    /\ Len(id) = 10
    /\ SubSeq(id, 1, 3) = "INC"
    /\ \A i \in 4..10 : SubSeq(id, i, i) \in DigitTexts

Succeeded == Returned /\ "status" \in DOMAIN result /\ result.status = "success"

\* C19: the ticket id is the caller-supplied ticket_id when one is given,
\* otherwise a generated "INC" followed by 7 decimal digits, and it never
\* changes after creation; every success result of
\* process_monitoring_incident has ticket_id = incident_id = full_ticket.id.
C19_TicketIdentity ==
    /\ [](\A a \in BuilderArgs, generated \in TicketIds, moment \in Moments :
            /\ IsIncId(generated)
            /\ create_incident_ticket(a.alert_text, a.detection_time, a.ticket_id,
                                      generated, moment).id
                 = IF a.ticket_id \in {None, ""} THEN generated ELSE a.ticket_id)
    /\ [](ticket_id # None => IsIncId(ticket_id))
    /\ [](ticket # <<>> => ticket.id = ticket_id)
    /\ [][ticket # <<>> => ticket'.id = ticket.id]_vars
    /\ [](Succeeded => /\ result.ticket_id = ticket_id
                       /\ result.incident_id = result.ticket_id
                       /\ result.full_ticket.id = result.ticket_id)

C19_Witness ==
    /\ Succeeded
    /\ ticket_id = "INC4830275"
    /\ result.incident_id = "INC4830275"
    /\ result.full_ticket.id = "INC4830275"

WriteOnceFields ==
    {"metrics", "correlation", "slack_delivery_status", "slack_ts",
     "slack_channel", "slack_error"}
DeliveryFields == {"slack_delivery_status", "slack_ts", "slack_channel", "slack_error"}

\* C20: during one run of raise_incident_in_slack the ticket's metrics,
\* correlation and Slack delivery fields are each assigned at most once, in
\* the order metrics, correlation, delivery; a field once populated is never
\* reassigned or removed, and the triage record of the creation is not
\* modified afterwards.
C20_TicketFieldsWrittenOnce ==
    /\ [][\A f \in WriteOnceFields \cup {"triage"} :
            f \in DOMAIN ticket => (f \in DOMAIN ticket' /\ ticket'[f] = ticket[f])]_vars
    /\ []("correlation" \in DOMAIN ticket => "metrics" \in DOMAIN ticket)
    /\ [](DeliveryFields \cap DOMAIN ticket # {} => "correlation" \in DOMAIN ticket)
    /\ [](pc = "ris_fetch" => WriteOnceFields \cap DOMAIN ticket = {})

C20_Witness ==
    /\ TicketReturned
    /\ ticket.metrics # <<>>
    /\ ticket.metrics.status = "api_call_failed"
    /\ ticket.metrics.cpu_max = 81
    /\ ticket.correlation.correlated = FALSE
    /\ ticket.slack_delivery_status = "success"
    /\ "slack_ts" \in DOMAIN ticket

(***************************************************************************)
(* Properties of the severity search of _parse_alert (checked under        *)
(* SpecParser).                                                            *)
(***************************************************************************)
Parsed == pa_parsed # <<>>

\* The first of the four words whose letters stand somewhere in the text, in
\* lower case, or None.
FirstContained(s) ==
    LET at == {m \in (1..Len(s)) \X (1..Len(SeverityWords)) :
                  LET w == SeverityWords[m[2]]
                  IN  /\ m[1] + Len(w) - 1 <= Len(s)
                      /\ Lower(SubSeq(s, m[1], m[1] + Len(w) - 1)) = w}
    IN  IF at = {} THEN None
        ELSE SeverityWords[(CHOOSE m \in at : \A o \in at : m[1] <= o[1])[2]]

\* C21 as stated: the severity is the first of critical, high, medium, low
\* that the alert text contains, in any letter case, title-cased, and
\* "Medium" for every other text.
C21_SeverityOfContainedWord ==
    Parsed =>
        pa_parsed.severity =
            IF FirstContained(pa_text) = None THEN "Medium"
            ELSE Capitalize(FirstContained(pa_text))

\* The severity a piece names when it is one of the four words.
NamedSeverity(w) ==
    CASE w \in {"critical", "CRITICAL"} -> "Critical"
      [] w \in {"High", "hIGH"} -> "High"
      [] w = "medium" -> "Medium"
      [] w = "LOW" -> "Low"
      [] OTHER -> None

\* The words of a text: a blank or punctuation separates its two pieces, an
\* underscore, a digit or nothing makes one word of them.
WordsOf(parts) ==
    IF parts[2] \in {" ", "-", ": "} THEN <<parts[1], parts[3]>>
    ELSE <<parts[1] \o parts[2] \o parts[3]>>

\* C21: the severity is the first whole word of the alert text that is one
\* of critical, high, medium, low in any letter case, title-cased, and
\* "Medium" when no whole word of the text is one of them.
C21_SeverityOfWholeWord ==
    Parsed =>
        LET ws == WordsOf(pa_parts)
            named == {k \in 1..Len(ws) : NamedSeverity(ws[k]) # None}
        IN  pa_parsed.severity =
                IF named = {} THEN "Medium"
                ELSE NamedSeverity(ws[CHOOSE k \in named : \A o \in named : k <= o])

\* A text whose first word holds "low" inside and whose second word is
\* "high" in mixed case has been parsed as High.
C21_Witness ==
    /\ Parsed
    /\ pa_parts = <<"Slow", " ", "hIGH">>
    /\ pa_parsed.severity = "High"

(***************************************************************************)
(* Properties of the notifier inside the incident flow (checked under      *)
(* Spec).                                                                  *)
(***************************************************************************)
NotifierReturned == pc = "ris_record"

\* C22: async_send_to_slack never retries: a notification that reaches the
\* transport calls chat_postMessage once, and once more in plain text only
\* when the rich call raised TypeError; no call follows any other outcome; a
\* last call that failed, like a notification that never reached the
\* transport, yields delivery_status "failed" with an error; and no
\* exception leaves the notifier.
C22_SingleAttempt ==
    NotifierReturned =>
        LET calls == transport_calls
            n == Len(calls)
        IN  /\ n <= 2
            /\ n = 2 => calls[1] = "TypeError"
            /\ \A k \in 1..n : calls[k] # "TypeError" => k = n
            /\ (n = 0 \/ calls[n] # "ok") =>
                   /\ slack_result.delivery_status = "failed"
                   /\ "error" \in DOMAIN slack_result
            /\ (n > 0 /\ calls[n] = "ok") => slack_result.delivery_status = "success"
            /\ raised = None

\* The rich call raised TypeError, the plain-text call failed as well, and
\* the notifier returned a failed delivery.
C22_Witness ==
    /\ NotifierReturned
    /\ transport_calls = <<"TypeError", "SlackApiError">>
    /\ slack_result.delivery_status = "failed"

C29_VmNameConsistent ==
    (Succeeded /\ fetch_calls = 1) => result.vm_name = vm_queried

(***************************************************************************)
(* Properties of transform_monitoring_to_incident_format (checked under    *)
(* SpecTransform).                                                         *)
(***************************************************************************)
\* C30: a monitoring output with status "abnormalities_detected" is turned
\* into a payload with status "abnormality_detected" that has all six
\* fields process_monitoring_incident requires, and a second application
\* returns that payload unchanged; an output with any other status is
\* returned unchanged.
C30_TransformFeedsIncidentDetection ==
    tf_out # <<>> =>
        IF tf_in.status = "abnormalities_detected"
        THEN /\ tf_out.status = "abnormality_detected"
             /\ \A i \in 1..Len(required_fields) : required_fields[i] \in DOMAIN tf_out
             /\ MissingFields(AsPayload(tf_out)) = <<>>
             /\ IsIncident(AsPayload(tf_out))
             /\ tf_again # <<>> => tf_again = tf_out
        ELSE /\ tf_out = tf_in
             /\ tf_again # <<>> => tf_again = tf_in

\* An output with abnormal_lines and a timestamp only, and no application
\* name, has been transformed twice.
C30_Witness ==
    /\ tf_again # <<>>
    /\ DOMAIN tf_in = {"status", "abnormal_lines", "timestamp"}
    /\ tf_in.status = "abnormalities_detected"
    /\ tf_out.application_name = "Unknown"
    /\ tf_out.related_log_lines = tf_in.abnormal_lines
    /\ tf_out.detection_time = tf_in.timestamp

(***************************************************************************)
(* Properties of the integrated workflow (checked under SpecWorkflow, the  *)
(* termination of C26 under SpecWorkflowLive).                             *)
(***************************************************************************)
StepRan(name) == \E k \in 1..Len(steps) : steps[k] = name

\* The resolution texts that mention escalate, failed or error, in any
\* letter case.
MentionsTrouble(text) ==
    text \in {"Escalate to on-call engineer", "Reboot FAILED",
              "An error occurred during resolution"}

\* C23: a message is posted as a thread reply exactly when a thread
\* reference is supplied; the broadcast flag is sent only with a thread
\* reference and only when broadcast was requested; the benefits
\* notification never carries the broadcast flag; and the workflow, when
\* its Report step runs, requests broadcast exactly when the resolution text
\* mentions escalate, failed or error, or the severity is Critical.
C23_ThreadingAndBroadcast ==
    /\ report_sent # <<>> =>
          LET sent == report_sent.message_params
              call == report_sent.call
          IN  /\ ("thread_ts" \in DOMAIN sent) <=> call.thread_ts \notin {None, ""}
              /\ "thread_ts" \in DOMAIN sent => sent.thread_ts = call.thread_ts
              /\ "reply_broadcast" \in DOMAIN sent =>
                     "thread_ts" \in DOMAIN sent /\ call.reply_broadcast
    /\ benefits_sent # <<>> =>
          LET sent == benefits_sent.message_params
              call == benefits_sent.call
          IN  /\ ("thread_ts" \in DOMAIN sent) <=> call.thread_ts \notin {None, ""}
              /\ "reply_broadcast" \notin DOMAIN sent
    /\ (StepRan("Report") /\ wf_pc = "done") =>
          ((report_request # <<>> /\ report_request.reply_broadcast)
             <=> (\/ MentionsTrouble(resolution_result)
                  \/ incident_result.severity = "Critical"))

\* C24: whenever the Report or the Benefits step hands a request to its
\* agent, the ticket id in it is the ticket_id process_monitoring_incident
\* returned for the incident.
C24_UnifiedTicketId ==
    /\ report_request # <<>> => report_request.ticket_id = incident_result.ticket_id
    /\ benefits_request # <<>> => benefits_request.ticket_id = incident_result.ticket_id

\* C25: when incident detection succeeded and its Slack delivery succeeded,
\* the thread timestamp handed to the Report and Benefits agents is the
\* timestamp of the incident's Slack message.
C25_ThreadReferencePropagated ==
    \A request \in {report_request, benefits_request} :
        (request # <<>> /\ incident_result.slack_delivery.status = "success")
            => request.thread_ts = incident_result.slack_delivery.message_timestamp

\* The place of a step in the order of the workflow.
Place(name) == CHOOSE k \in 1..Len(StepOrder) : StepOrder[k] = name

C26_Gating ==
    /\ \A j, k \in 1..Len(steps) : j < k => Place(steps[j]) < Place(steps[k])
    /\ StepRan("Incident Detection") =>
          DictGet(monitoring_output, "status") = "abnormality_detected"
    /\ (StepRan("Resolution") \/ StepRan("Report") \/ StepRan("Benefits")) =>
          /\ StepRan("Incident Detection")
          /\ DictGet(incident_result, "status") = "success"

\* C26: the steps run in the order Monitoring, Incident Detection,
\* Resolution, Report, Benefits; Incident Detection runs only after
\* monitoring reported "abnormality_detected"; Resolution, Report and
\* Benefits run only after incident detection returned "success"; and every
\* run of the workflow, whatever raised in its steps, reaches the summary.
C26_GatingOrderAndSummary == []C26_Gating /\ <>(wf_pc = "done")

\* All five steps have run, the Resolution step raised, the Report step
\* raised as well, and the summary has been printed.
C26_Witness ==
    /\ wf_pc = "done"
    /\ steps = StepOrder
    /\ resolution_result = "Unable to resolve issue automatically"
    /\ wf_ticket_id = "INC-ERROR-001"

\* C27: when the analysis run does not reach completed within the poll
\* budget, or the analysis raises, check_for_abnormalities returns
\* abnormalities_found = false, the monitoring output is "healthy", and the
\* workflow does not run incident detection.
C27_FailedAnalysisReadsHealthy ==
    analysis_ended \in {"not_completed", "raised"} =>
        /\ analysis_result.abnormalities_found = FALSE
        /\ monitoring_output.status = "healthy"
        /\ ~StepRan("Incident Detection")
        /\ incident_result = <<>>

\* A run still waiting in requires_action when the poll budget was spent:
\* the workflow has ended after the monitoring step alone.
C27_Witness ==
    /\ wf_pc = "done"
    /\ analysis_ended = "not_completed"
    /\ analysis_result.analysis = "Analysis failed with status: requires_action"
    /\ monitoring_output.status = "healthy"
    /\ steps = <<"Monitoring">>

====
